---- MODULE Spec2Model ----
(***************************************************************************)
(* Meteor Madness: the impact-analysis engine behind                       *)
(* GET /physics/impact-analysis and the Scenario Setup screen that         *)
(* resolves an asteroid's parameters and sends them to it.                 *)
(*                                                                         *)
(* Units.  TLC's integers are 32 bits wide, so the quantities are kept in  *)
(* units in which the program's formulas stay in range:                    *)
(*   diameter  metres (whole hectometres)   density  kg/m^3                *)
(*   mass      10^6 kg                      velocity m/s (whole km/s)      *)
(*   energy    10^12 J (TJ)                 pressure kPa                   *)
(* so that  mass = density * volume[10^6 m^3]  and                         *)
(* energy = mass * (velocity/1000)^2 / 2  need no further factor.          *)
(* An optional value is <<>> (not supplied) or <<v>>.                      *)
(***************************************************************************)
EXTENDS Integers, Sequences, FiniteSets, TLC

VARIABLES
    request,              \* the query parameters of one /physics/impact-analysis call
    outcome,              \* what the call returned
    sbdbRecord,           \* localStorage 'selectedAsteroidDetails' (the SBDB record)
    setupPhase,           \* Scenario Setup: "unmounted" | "loaded"
    asteroidParameters,   \* Scenario Setup state asteroidParameters
    editedFields,         \* history: the form fields the user has typed into
    apiParams,            \* the query Scenario Setup sent last, <<>> before the first
    scenarioData,         \* Scenario Setup state scenarioData
    setupIsAnalyzing,     \* Scenario Setup state isAnalyzing
    setupAnalysisError,   \* Scenario Setup state analysisError, <<>> for null
    setupPhysicsResponse, \* Scenario Setup state physicsResponse, <<>> for null
    showModal,            \* Scenario Setup state showModal
    setupInFlight,        \* the number of callPhysicsAPI calls awaiting their fetch
    estimatorInput,       \* the zone list and population density given to the casualty estimator
    estimate,             \* the casualty estimate it returned, <<>> before the call
    simulationData,       \* localStorage 'simulationData' written by Scenario Setup
    globePhase,           \* Globe screen: "unmounted" | "mounted"
    selectedCoordinates,  \* Globe screen state, <<>> for null; 1e-4 degrees
    globeAsteroidParameters, \* Globe screen state asteroidParameters
    globeScenarioData,    \* Globe screen state scenarioData
    editableParams,       \* Globe screen state: the rerun form
    physicsResponse,      \* Globe screen state, <<>> for null
    analysisError,        \* Globe screen state, <<>> for null
    isAnalyzing,          \* Globe screen state
    pendingAnalysis,      \* the fetch performPhysicsAnalysis awaits, <<>> when none
    circleData,           \* Globe screen state: the polygons on the globe
    formEdits,            \* history: the number of edits of the rerun form
    currentImpactLocation, \* localStorage 'currentImpactLocation', <<>> when not set
    calls,                \* the analyze_impact calls running concurrently, each with
                          \* its own request, stage, resolved parameters and outcome
    searchPhase,          \* asteroid search: "unmounted" | "mounted"
    searchQuery,          \* asteroid search state searchQuery, a sequence of characters
    timers,               \* the setTimeout timers that are pending
    timeoutId,            \* the timer of the latest run of the debounce effect
    heldFor,              \* history: how long the box has held its text, in ticks
    changes,              \* history: the number of changes of the text
    issued,               \* history: the autocomplete requests issued, in order
    inFlight,             \* the queries whose autocomplete fetch is awaited
    suggestions,          \* asteroid search state suggestions: the query they answer, <<>> for []
    showDropdown,         \* asteroid search state showDropdown
    isLoading,            \* asteroid search state isLoading
    route,                \* the route shown: "simulation" | "predefined" | "custom" |
                          \* "scenario-setup" | "globe"
    storedSelectedAsteroid, \* localStorage 'selectedAsteroid', <<>> when not set
    lastChosen,           \* history: the record the latest selection or creation wrote
    choices,              \* history: the number of selections and creations
    impactLocation,       \* localStorage 'impactLocation', <<>> when not set
    manualCoords,         \* Globe screen state manualCoords, <<>> for {lat: '', lng: ''}
    selectedMarker,       \* Globe screen: the 'Selected Location' marker, <<>> when none
    confirmations         \* history: the number of confirmed locations

engineVars == <<request, outcome>>
analysisVars ==
    <<setupIsAnalyzing, setupAnalysisError, setupPhysicsResponse, showModal,
      setupInFlight>>
setupVars ==
    <<sbdbRecord, setupPhase, asteroidParameters, editedFields, apiParams,
      scenarioData, analysisVars>>
estimatorVars == <<estimatorInput, estimate>>
globeVars ==
    <<simulationData, globePhase, selectedCoordinates, globeAsteroidParameters,
      globeScenarioData, editableParams, physicsResponse, analysisError,
      isAnalyzing, pendingAnalysis, circleData, formEdits, currentImpactLocation>>

callVars == <<calls>>

searchVars ==
    <<searchPhase, searchQuery, timers, timeoutId, heldFor, changes, issued,
      inFlight, suggestions, showDropdown, isLoading>>

selectionVars == <<storedSelectedAsteroid, lastChosen, choices>>

handoffVars == <<impactLocation, manualCoords, selectedMarker, confirmations>>

flowVars == <<route, selectionVars, handoffVars>>

vars ==
    <<engineVars, setupVars, estimatorVars, globeVars, callVars, searchVars,
      flowVars>>

(* What an action of one component leaves alone. *)
outsideEngine ==
    <<setupVars, estimatorVars, globeVars, callVars, searchVars, flowVars>>
outsideSetup ==
    <<engineVars, estimatorVars, globeVars, callVars, searchVars, flowVars>>
outsideEstimator ==
    <<engineVars, setupVars, globeVars, callVars, searchVars, flowVars>>
outsideGlobe ==
    <<engineVars, setupVars, estimatorVars, callVars, searchVars, flowVars>>
outsideCalls ==
    <<engineVars, setupVars, estimatorVars, globeVars, searchVars, flowVars>>
outsideSearch ==
    <<engineVars, setupVars, estimatorVars, globeVars, callVars, flowVars>>
outsideScreens == <<engineVars, estimatorVars, callVars, searchVars, handoffVars>>
outsideHandoff == <<engineVars, estimatorVars, callVars, searchVars, selectionVars>>

----------------------------------------------------------------------------
(* Optional values *)

None == <<>>
Some(v) == <<v>>
IsSome(o) == o # <<>>
Get(o) == o[1]
OrElse(o, d) == IF IsSome(o) THEN o[1] ELSE d

Max(a, b) == IF a >= b THEN a ELSE b
Min(a, b) == IF a <= b THEN a ELSE b

(* Integer roots: the largest n with n^2 <= x, n^3 <= x, found a bit at  *)
(* a time.                                                                *)
RECURSIVE ISqrt(_)
ISqrt(x) ==
    IF x <= 0 THEN 0
    ELSE LET s == 2 * ISqrt(x \div 4)
         IN  IF (s + 1) * (s + 1) <= x THEN s + 1 ELSE s

RECURSIVE ICbrt(_)
ICbrt(x) ==
    IF x <= 0 THEN 0
    ELSE LET c == 2 * ICbrt(x \div 8)
         IN  IF (c + 1) * (c + 1) * (c + 1) <= x THEN c + 1 ELSE c

RECURSIVE ILog2(_)
ILog2(x) == IF x <= 1 THEN 0 ELSE 1 + ILog2(x \div 2)

----------------------------------------------------------------------------
(* Physics engine: tables and defaults *)

Compositions == {"ROCKY", "METALLIC", "ICY", "CARBONACEOUS"}

(* Composition defaults: density in kg/m^3 and material strength in kPa. *)
CompositionDensity(c) ==
    CASE c = "ROCKY" -> 2600
      [] c = "METALLIC" -> 7800
      [] c = "ICY" -> 1000
      [] c = "CARBONACEOUS" -> 1380

CompositionStrength(c) ==
    CASE c = "ROCKY" -> 1000
      [] c = "METALLIC" -> 500000
      [] c = "ICY" -> 100
      [] c = "CARBONACEOUS" -> 500

DefaultComposition == "ROCKY"
DefaultVelocity == 20000
DefaultAngle == 45
DefaultPopulationDensity == 100

(* pi as the fraction PiNum / PiDen *)
PiNum == 22
PiDen == 7

MetresPerHectometre == 100
MetresPerKm == 1000

(* Volume, in 10^6 m^3, of the sphere of diameter d metres:              *)
(* (4/3) * pi * (d/2)^3 = pi * d^3 / 6.                                  *)
SphereVolume(d) ==
    LET dh == d \div MetresPerHectometre
    IN  (PiNum * dh * dh * dh) \div (6 * PiDen)

(* mass = volume * density *)
SphereMass(d, density) == SphereVolume(d) * density

----------------------------------------------------------------------------
(* 4.1 Parameter Resolver *)

(* ValidateRequest with the angle's upper limit left unchecked. *)
ValidateRequest_NoUpperAngle(req) ==
    IF req.diameter <= 0 THEN "diameter"
    ELSE IF IsSome(req.mass) /\ Get(req.mass) <= 0 THEN "mass"
    ELSE IF IsSome(req.density) /\ Get(req.density) <= 0 THEN "density"
    ELSE IF IsSome(req.composition) /\ Get(req.composition) \notin Compositions
        THEN "composition"
    ELSE IF OrElse(req.velocity, DefaultVelocity) <= 0 THEN "velocity"
    ELSE IF OrElse(req.angle, DefaultAngle) < 0 THEN "angle"
    ELSE IF OrElse(req.population_density, DefaultPopulationDensity) < 0
        THEN "population_density"
    ELSE ""

(* The first offending field, or "" for a valid request. *)
ValidateRequest(req) ==
    IF req.diameter <= 0 THEN "diameter"
    ELSE IF IsSome(req.mass) /\ Get(req.mass) <= 0 THEN "mass"
    ELSE IF IsSome(req.density) /\ Get(req.density) <= 0 THEN "density"
    ELSE IF IsSome(req.composition) /\ Get(req.composition) \notin Compositions
        THEN "composition"
    ELSE IF OrElse(req.velocity, DefaultVelocity) <= 0 THEN "velocity"
    ELSE IF OrElse(req.angle, DefaultAngle) < 0 \/ OrElse(req.angle, DefaultAngle) > 90
        THEN "angle"
    ELSE IF OrElse(req.population_density, DefaultPopulationDensity) < 0
        THEN "population_density"
    ELSE ""

ResolveDensity(req) ==
    IF IsSome(req.density) THEN Get(req.density)
    ELSE CompositionDensity(OrElse(req.composition, DefaultComposition))

ResolveMass(req) ==
    IF IsSome(req.mass) THEN Get(req.mass)
    ELSE SphereMass(req.diameter, ResolveDensity(req))

ResolveParameters(req) ==
    [ diameter_m |-> req.diameter,
      mass_kg |-> ResolveMass(req),
      density_kg_m3 |-> ResolveDensity(req),
      composition |-> OrElse(req.composition, DefaultComposition),
      velocity_ms |-> OrElse(req.velocity, DefaultVelocity),
      angle_degrees |-> OrElse(req.angle, DefaultAngle),
      population_density_per_km2 |->
          OrElse(req.population_density, DefaultPopulationDensity) ]

----------------------------------------------------------------------------
(* 4.3 Energy Calculator *)

(* KineticEnergy without the factor 0.5. *)
KineticEnergy_NoHalf(mass, velocity) ==
    LET vkm == velocity \div MetresPerKm
    IN  mass * vkm * vkm

(* KE = 0.5 * mass * velocity^2, in TJ for mass in 10^6 kg. *)
KineticEnergy(mass, velocity) ==
    LET vkm == velocity \div MetresPerKm
    IN  (mass * vkm * vkm) \div 2

(* One megaton of TNT is 4.184 * 10^15 J = 4184 TJ. *)
JoulesPerMegaton == 4184

(* tnt_equivalent_megatons = KE / 4.184e15, kept as the exact fraction. *)
TntEquivalent(ke) == [num |-> ke, den |-> JoulesPerMegaton]

----------------------------------------------------------------------------
(* 4.4 Entry / Impact-Type Classifier *)

(* rho0 = 1.225 kg/m^3, so twice the sea-level dynamic pressure          *)
(* 2 * q(0) = rho0 * v^2 is 1225 * (v/1000)^2 kPa.                       *)
SeaLevelDensityMilli == 1225
(* Scale height H = 8000 m; ln 2 = 0.693 *)
ScaleHeight == 8000
Ln2Milli == 693

TwiceSeaLevelPressure(velocity) ==
    LET vkm == velocity \div MetresPerKm
    IN  SeaLevelDensityMilli * vkm * vkm

(* The altitude where q(h) = strength: H * ln(q(0) / strength), in km,   *)
(* the logarithm taken to whole powers of two.                            *)
BreakupAltitudeKm(velocity, strength) ==
    (ScaleHeight * Ln2Milli * ILog2(TwiceSeaLevelPressure(velocity) \div (2 * strength)))
        \div (MetresPerKm * 1000)

(* n^3.4 = n^3 * (n^2)^(1/5), with the fifth root an integer root. *)
RECURSIVE IRoot5From(_, _)
IRoot5From(x, n) ==
    IF (n + 1) * (n + 1) * (n + 1) * (n + 1) * (n + 1) > x THEN n ELSE IRoot5From(x, n + 1)
Pow34(n) == n * n * n * IRoot5From(n * n, 0)

(* The largest n in lo..hi with n^3.4 <= x, by bisection. *)
RECURSIVE IRoot34Between(_, _, _)
IRoot34Between(x, lo, hi) ==
    IF lo >= hi THEN lo
    ELSE LET mid == (lo + hi + 1) \div 2
         IN  IF Pow34(mid) <= x THEN IRoot34Between(x, mid, hi)
             ELSE IRoot34Between(x, lo, mid - 1)
IRoot34(x) == IF x <= 0 THEN 0 ELSE IRoot34Between(x, 0, ICbrt(x))

(* crater = K * (KE_J / (rho_target * g))^(1/3.4) with K = 1.8,           *)
(* rho_target = 2500, g = 9.81: 312 m per (TJ)^(1/3.4).                   *)
CraterCoefficient == 312
CraterDiameter(ke) == CraterCoefficient * IRoot34(ke)

(* seismic_magnitude = (2/3) * log10(KE_J) - offset, in tenths; the       *)
(* energy is in TJ, log10 in hundredths from the binary logarithm.        *)
SeismicOffsetTenths == 47
SeismicMagnitude(ke) ==
    Max(0, (2 * (1200 + 30 * ILog2(Max(ke, 1)))) \div 30 - SeismicOffsetTenths)

(* ClassifyImpact reporting a zero crater for an airburst. *)
ClassifyImpact_ZeroCrater(composition, velocity, ke) ==
    IF ke <= 0 \/ TwiceSeaLevelPressure(velocity) > 2 * CompositionStrength(composition)
    THEN [ impact_type |-> "airburst",
           airburst_altitude_km |->
               Some(BreakupAltitudeKm(velocity, CompositionStrength(composition))),
           crater_diameter_m |-> Some(0) ]
    ELSE [ impact_type |-> "surface", airburst_altitude_km |-> None,
           crater_diameter_m |-> Some(CraterDiameter(ke)) ]

ClassifyImpact(composition, velocity, ke) ==
    IF ke <= 0
    THEN \* negligible energy: an airburst with a zero-equivalent result
         [ impact_type |-> "airburst", airburst_altitude_km |-> Some(0),
           crater_diameter_m |-> None ]
    ELSE IF TwiceSeaLevelPressure(velocity) > 2 * CompositionStrength(composition)
    THEN [ impact_type |-> "airburst",
           airburst_altitude_km |->
               Some(BreakupAltitudeKm(velocity, CompositionStrength(composition))),
           crater_diameter_m |-> None ]
    ELSE [ impact_type |-> "surface", airburst_altitude_km |-> None,
           crater_diameter_m |-> Some(CraterDiameter(ke)) ]

----------------------------------------------------------------------------
(* 4.5 Damage Zone Generator *)

(* radius = ThermalCoefficient * sqrt(KE) metres for thermal burns and    *)
(* BlastCoefficient * KE^(1/3) / P^(1/3) metres for an overpressure zone  *)
(* of threshold P kPa (KE in TJ).  The thermal law grows with the square  *)
(* root and the blast law with the cube root of the energy, so whatever   *)
(* the coefficients the two cross at some energy.                          *)
ThermalCoefficient == 75
BlastCoefficient == 225

ThermalRadius(ke) == ThermalCoefficient * ISqrt(ke)
OverpressureRadius(ke, threshold) ==
    (BlastCoefficient * ICbrt(ke)) \div ICbrt(threshold)

ZoneCatalog ==
    << [type |-> "thermal_burns", severity_level |-> 1, threshold |-> 0],
       [type |-> "overpressure_total_destruction", severity_level |-> 1, threshold |-> 125],
       [type |-> "overpressure_severe_damage", severity_level |-> 2, threshold |-> 64],
       [type |-> "overpressure_moderate_damage", severity_level |-> 3, threshold |-> 27],
       [type |-> "overpressure_light_damage", severity_level |-> 4, threshold |-> 8] >>

ZoneRadius(kind, ke) ==
    IF kind.type = "thermal_burns" THEN ThermalRadius(ke)
    ELSE OverpressureRadius(ke, kind.threshold)

MakeZone(kind, ke) ==
    [ type |-> kind.type, radius_meters |-> ZoneRadius(kind, ke),
      severity_level |-> kind.severity_level ]

(* ZoneSortKey ordering the list by severity instead of radius. *)
ZoneSortKey_BySeverity(zone) == 0 - zone.severity_level

(* The sort key with which the zone list is ordered, largest first. *)
ZoneSortKey(zone) == zone.radius_meters

(* Insert z into the descending list zs, after the zones of equal key. *)
RECURSIVE InsertZone(_, _)
InsertZone(z, zs) ==
    IF zs = <<>> THEN <<z>>
    ELSE IF ZoneSortKey(z) > ZoneSortKey(Head(zs)) THEN <<z>> \o zs
    ELSE <<Head(zs)>> \o InsertZone(z, Tail(zs))

RECURSIVE SortZones(_)
SortZones(zs) ==
    IF zs = <<>> THEN <<>>
    ELSE InsertZone(zs[Len(zs)], SortZones(SubSeq(zs, 1, Len(zs) - 1)))

(* A zone whose radius is not positive is left out. *)
GenerateZones(ke) ==
    LET all == [i \in 1..Len(ZoneCatalog) |-> MakeZone(ZoneCatalog[i], ke)]
    IN  SortZones(SelectSeq(all, LAMBDA z : z.radius_meters > 0))

----------------------------------------------------------------------------
(* 4.6 Casualty Estimator *)

(* The share of the people in a zone who become casualties, in percent,   *)
(* and the tier they are counted in.                                      *)
LethalityPercent(type) ==
    CASE type = "thermal_burns" -> 50
      [] type = "overpressure_total_destruction" -> 90
      [] type = "overpressure_severe_damage" -> 30
      [] type = "overpressure_moderate_damage" -> 10
      [] OTHER -> 5

CasualtyTier(type) ==
    CASE type = "thermal_burns" -> "fatalities"
      [] type = "overpressure_total_destruction" -> "fatalities"
      [] type = "overpressure_severe_damage" -> "severe_injuries"
      [] type = "overpressure_moderate_damage" -> "moderate_injuries"
      [] OTHER -> "light_injuries"

HectaresPerKm2 == 100

(* The radius inside zone i: that of the next zone, 0 for the last. *)
InnerRadius(zs, i) == IF i < Len(zs) THEN zs[i + 1].radius_meters ELSE 0

(* pi * (outer^2 - inner^2) in hectares, the radii taken in hectometres. *)
DiscDifference(outer, inner) ==
    LET o == outer \div MetresPerHectometre
        n == inner \div MetresPerHectometre
        d == o * o - n * n
    IN  IF d >= 0 THEN (PiNum * d) \div PiDen
        ELSE 0 - ((PiNum * (0 - d)) \div PiDen)

(* AnnulusArea that lets the difference of the squares go negative. *)
AnnulusArea_Unclamped(zs, i) ==
    DiscDifference(zs[i].radius_meters, InnerRadius(zs, i))

(* pi * (r_i^2 - r_{i+1}^2) in hectares, 0 when the outer radius is not   *)
(* greater than the inner one.                                            *)
AnnulusArea(zs, i) ==
    IF zs[i].radius_meters <= InnerRadius(zs, i) THEN 0
    ELSE DiscDifference(zs[i].radius_meters, InnerRadius(zs, i))

(* casualties_i = area_i * population_density * lethality_fraction *)
ZoneCasualties(zs, i, density) ==
    (((AnnulusArea(zs, i) \div HectaresPerKm2) * LethalityPercent(zs[i].type))
        \div 100) * density

RECURSIVE TierTotal(_, _, _, _)
TierTotal(zs, i, density, tier) ==
    IF i > Len(zs) THEN 0
    ELSE (IF CasualtyTier(zs[i].type) = tier THEN ZoneCasualties(zs, i, density) ELSE 0)
         + TierTotal(zs, i + 1, density, tier)

EstimateCasualties(zs, density) ==
    [ fatalities |-> Max(0, TierTotal(zs, 1, density, "fatalities")),
      severe_injuries |-> Max(0, TierTotal(zs, 1, density, "severe_injuries")),
      moderate_injuries |-> Max(0, TierTotal(zs, 1, density, "moderate_injuries")),
      light_injuries |-> Max(0, TierTotal(zs, 1, density, "light_injuries")) ]

----------------------------------------------------------------------------
(* 4.7 Deflection Feasibility Analyzer *)

DeflectionRequested(req) ==
    IsSome(req.deflection_distance) /\ IsSome(req.warning_time)
        /\ IsSome(req.available_energy)

(* required = 0.5 * mass * (distance / time)^2 as the fraction            *)
(* mass * distance^2 / (2 * time^2), distance in km.                      *)
RequiredEnergy(mass, distance, time) ==
    LET dkm == distance \div MetresPerKm
    IN  [num |-> mass * dkm * dkm, den |-> 2 * time * time]

(* DeflectionDegenerate without the test of the warning time. *)
DeflectionDegenerate_DistanceOnly(mass, distance, time) ==
    RequiredEnergy(mass, distance, time).num <= 0

(* Delta-v is undefined for a zero warning time, and the required energy  *)
(* must be strictly positive.                                             *)
DeflectionDegenerate(mass, distance, time) ==
    \/ time = 0
    \/ RequiredEnergy(mass, distance, time).num <= 0

(* Feasible with the boundary excluded. *)
Feasible_Strict(available, required) == available * required.den > required.num

Feasible(available, required) == available * required.den >= required.num

AssessDeflection(mass, distance, time, available) ==
    LET required == RequiredEnergy(mass, distance, time)
    IN  [ feasible |-> Feasible(available, required),
          required_energy_joules |-> required,
          available_energy_joules |-> available,
          energy_ratio |-> [num |-> available * required.den, den |-> required.num] ]

----------------------------------------------------------------------------
(* analyze_impact: the report assembler *)

(* DeflectionSection null-filled when parameters are missing. *)
DeflectionSection_NullFilled(req, mass) ==
    IF DeflectionRequested(req)
    THEN Some(AssessDeflection(mass, Get(req.deflection_distance),
                               Get(req.warning_time), Get(req.available_energy)))
    ELSE Some([ feasible |-> FALSE, required_energy_joules |-> [num |-> 0, den |-> 1],
                available_energy_joules |-> 0,
                energy_ratio |-> [num |-> 0, den |-> 1] ])

DeflectionSection(req, mass) ==
    IF DeflectionRequested(req)
    THEN Some(AssessDeflection(mass, Get(req.deflection_distance),
                               Get(req.warning_time), Get(req.available_energy)))
    ELSE None

(* The report of a request from its resolved parameters. *)
AssembleReport(req, p) ==
    LET ke == KineticEnergy(p.mass_kg, p.velocity_ms)
        mechanics == ClassifyImpact(p.composition, p.velocity_ms, ke)
    IN  [ asteroid_parameters |-> p,
          energy_analysis |->
              [ kinetic_energy_joules |-> ke,
                tnt_equivalent_megatons |-> TntEquivalent(ke),
                impact_type |-> mechanics.impact_type,
                airburst_altitude_km |-> mechanics.airburst_altitude_km,
                crater_diameter_m |-> mechanics.crater_diameter_m,
                seismic_magnitude |-> SeismicMagnitude(ke) ],
          impact_radii_gradient |-> GenerateZones(ke),
          casualty_estimates |->
              EstimateCasualties(GenerateZones(ke), p.population_density_per_km2),
          deflection_analysis |-> DeflectionSection(req, p.mass_kg) ]

BuildReport(req) == AssembleReport(req, ResolveParameters(req))

AnalyzeImpact(req) ==
    LET field == ValidateRequest(req)
    IN  IF field # ""
        THEN [kind |-> "ValidationError", field |-> field, report |-> None]
        ELSE IF DeflectionRequested(req)
                /\ DeflectionDegenerate(ResolveMass(req), Get(req.deflection_distance),
                                        Get(req.warning_time))
        THEN [kind |-> "ComputationDegenerate", field |-> "required_energy_joules",
              report |-> None]
        ELSE [kind |-> "report", field |-> "", report |-> Some(BuildReport(req))]

Pending == [kind |-> "pending", field |-> "", report |-> None]

----------------------------------------------------------------------------
(* The requests the engine is checked on: every field's valid values,    *)
(* its boundary and an invalid value, supplied or not.                   *)

DiameterInputs == {0, 200, 400}
MassInputs == {None, Some(0), Some(2), Some(20)}
DensityInputs == {None, Some(0), Some(3000)}
CompositionInputs == {None, Some("INVALID")} \cup {Some(c) : c \in Compositions}
VelocityInputs == {None, Some(0), Some(1000), Some(8000), Some(30000)}
AngleInputs == {None, Some(0), Some(95)}
PopulationDensityInputs == {None, Some(-1), Some(0)}
DeflectionDistanceInputs == {None, Some(0), Some(6000)}
WarningTimeInputs == {None, Some(0), Some(3)}
AvailableEnergyInputs == {None, Some(4), Some(40)}

Requests ==
    [ diameter : DiameterInputs, mass : MassInputs, density : DensityInputs,
      composition : CompositionInputs, velocity : VelocityInputs, angle : AngleInputs,
      population_density : PopulationDensityInputs,
      deflection_distance : DeflectionDistanceInputs,
      warning_time : WarningTimeInputs,
      available_energy : AvailableEnergyInputs ]

----------------------------------------------------------------------------
(* Scenario Setup: parameters extracted from the stored SBDB record *)

(* JavaScript truthiness of an optional number: present and not 0. *)
Truthy(o) == IsSome(o) /\ Get(o) # 0

(* The stored record: phys_par values as parseFloat reads them (<<>> for  *)
(* an entry that is missing or not a number); diameter in km, density in  *)
(* g/cm^3, albedo in hundredths.                                          *)
RecordDiameterInputs == {None, Some(1), Some(2)}
RecordDensityInputs == {None, Some(0), Some(3)}
RecordMassInputs == {None, Some(0), Some(5000)}
RecordAlbedoInputs == {None, Some(3), Some(5), Some(20), Some(30)}

(* The orbit elements as parseFloat reads them (<<>> for an element that *)
(* is missing or not a number): a in hundredths of an AU, e in            *)
(* hundredths, i in tenths of a degree.                                   *)
SemiMajorAxisInputs == {None, Some(-127), Some(0), Some(100)}
EccentricityInputs == {None, Some(0), Some(20)}
InclinationInputs == {None, Some(-1000), Some(0), Some(105), Some(1300), Some(1800)}

(* The records without an orbit, on every physical parameter. *)
SBDBRecords ==
    [ diameter : RecordDiameterInputs, density : RecordDensityInputs,
      mass : RecordMassInputs, albedo : RecordAlbedoInputs,
      semi_major_axis : {None}, eccentricity : {None}, inclination : {None} ]

(* The records of one asteroid on every orbit. *)
OrbitRecords ==
    [ diameter : {Some(1)}, density : {None}, mass : {None}, albedo : {Some(20)},
      semi_major_axis : SemiMajorAxisInputs, eccentricity : EccentricityInputs,
      inclination : InclinationInputs ]

NoParameters ==
    [ diameter |-> None, density |-> None, mass |-> None, composition |-> None,
      geometric_albedo |-> None, semi_major_axis |-> None, eccentricity |-> None,
      inclination |-> None, typical_velocity |-> None, typical_angle |-> None ]

(* km to m and g/cm^3 to kg/m^3 *)
UnitFactor == 1000
Scaled(o) == IF IsSome(o) THEN Some(Get(o) * UnitFactor) ELSE None

(* Composition from the albedo: > 0.2 metallic, < 0.05 carbonaceous. *)
CompositionFromAlbedo(albedo) ==
    IF IsSome(albedo)
    THEN IF Get(albedo) > 20 THEN "METALLIC"
         ELSE IF Get(albedo) < 5 THEN "CARBONACEOUS"
         ELSE "ROCKY"
    ELSE "ROCKY"

(* densityMap[params.composition] || 2500 *)
DensityMap(c) ==
    CASE c = "ROCKY" -> 2500
      [] c = "METALLIC" -> 5000
      [] c = "CARBONACEOUS" -> 1500
      [] c = "ICY" -> 900
      [] OTHER -> 2500

EstimateDensity(density, composition) ==
    IF ~Truthy(density) THEN Some(DensityMap(composition)) ELSE density

(* Mass from diameter and density when the diameter is there and the      *)
(* mass is not.                                                           *)
CalculateMass(diameter, mass, density) ==
    IF Truthy(diameter) /\ ~Truthy(mass) /\ Truthy(density)
    THEN Some(SphereMass(Get(diameter), Get(density)))
    ELSE mass

(* Velocities are in m/s and angles in twentieths of a degree. *)
MetresPerSecondPerKms == 1000
AngleUnitsPerDegree == 20
TenthsPerDegree == 10

(* earthVelocity = 29.78 km/s; asteroidVelocity^2 = 398600.4418 /         *)
(* (a * 149597870.7) km^2/s^2 = 266450 / a m^2/s^2 with a in hundredths   *)
(* of an AU.                                                              *)
EarthVelocity == 29780
OrbitalSpeedSquaredAtOneUnit == 266450

(* TypicalVelocity computed from the semi-major axis alone. *)
TypicalVelocity_WithoutEccentricity(a, e) ==
    IF Truthy(a)
    THEN IF Get(a) < 0 THEN None
         ELSE Some(ISqrt(EarthVelocity * EarthVelocity
                         + OrbitalSpeedSquaredAtOneUnit \div Get(a)))
    ELSE None

(* Math.sqrt(earthVelocity^2 + asteroidVelocity^2), computed when a and e *)
(* are both truthy; the square root of a negative number is NaN, and so   *)
(* is the sum it enters: <<>>.                                            *)
TypicalVelocity(a, e) ==
    IF Truthy(a) /\ Truthy(e)
    THEN IF Get(a) < 0 THEN None
         ELSE Some(ISqrt(EarthVelocity * EarthVelocity
                         + OrbitalSpeedSquaredAtOneUnit \div Get(a)))
    ELSE None

(* TypicalAngle without the upper limit of 90 degrees. *)
TypicalAngle_NoUpperLimit(i) ==
    IF IsSome(i)
    THEN Some(Max(15 * AngleUnitsPerDegree,
                  (Get(i) * AngleUnitsPerDegree) \div (2 * TenthsPerDegree)
                      + 30 * AngleUnitsPerDegree))
    ELSE None

(* Math.min(90, Math.max(15, inclination * 0.5 + 30)), computed when the  *)
(* inclination is there.                                                  *)
TypicalAngle(i) ==
    IF IsSome(i)
    THEN Some(Min(90 * AngleUnitsPerDegree,
                  Max(15 * AngleUnitsPerDegree,
                      (Get(i) * AngleUnitsPerDegree) \div (2 * TenthsPerDegree)
                          + 30 * AngleUnitsPerDegree)))
    ELSE None

extractParametersFromSBDB(record) ==
    LET diameter == Scaled(record.diameter)
        composition == CompositionFromAlbedo(record.albedo)
        density == EstimateDensity(Scaled(record.density), composition)
        mass == CalculateMass(diameter, record.mass, density)
    IN  [ diameter |-> diameter,
          density |-> EstimateDensity(density, composition),
          mass |-> mass,
          composition |-> Some(composition),
          geometric_albedo |-> record.albedo,
          semi_major_axis |-> record.semi_major_axis,
          eccentricity |-> record.eccentricity,
          inclination |-> record.inclination,
          typical_velocity |->
              TypicalVelocity(record.semi_major_axis, record.eccentricity),
          typical_angle |-> TypicalAngle(record.inclination) ]

----------------------------------------------------------------------------
(* Globe screen: the analysis response as the client reads it *)

(* A JSON object is a function from its keys (for the response: the       *)
(* dotted paths of its leaves) to values; reading a key the object does   *)
(* not have gives undefined, <<>>.                                        *)
Read(obj, key) == IF key \in DOMAIN obj THEN Some(obj[key]) ELSE None

(* x || d for a number read from an object. *)
NumberOr(o, d) == IF Truthy(o) THEN Get(o) ELSE d

(* Radii on the globe are in tenths of a kilometre. *)
MetresPerTenthKm == 100
RadiusKm(radius_meters) == (radius_meters + 50) \div MetresPerTenthKm

(* The default impactRadius and the fallback radius: 50 km. *)
DefaultImpactRadius == 500
FallbackRadius == 500

(* generateCircleCoordinates: the number of points of the ring it         *)
(* returns, 0 for the empty result on a radius that is not positive.      *)
NumPoints == 64
generateCircleCoordinates(centerLat, centerLng, radiusKm) ==
    IF radiusKm <= 0 THEN 0 ELSE NumPoints + 2

(* zone.radius_km || 0 *)
ZoneRadiusKm(zone) == NumberOr(Read(zone, "radius_km"), 0)

(* ZoneDrawn that draws a zone of radius 0 as well. *)
ZoneDrawn_ZeroToo(lat, lng, zone) == ZoneRadiusKm(zone) >= 0

(* A polygon is pushed for a zone of positive radius whose ring has more  *)
(* than 3 points.                                                         *)
ZoneDrawn(lat, lng, zone) ==
    /\ ZoneRadiusKm(zone) > 0
    /\ generateCircleCoordinates(lat, lng, ZoneRadiusKm(zone)) > 3

ZonePolygon(zone, index) ==
    [ name |-> IF "description" \in DOMAIN zone THEN zone["description"]
               ELSE "Damage Zone",
      zone |-> index,
      radius |-> ZoneRadiusKm(zone),
      severity |-> NumberOr(Read(zone, "severity_level"), 0) ]

RECURSIVE ZonePolygons(_, _, _, _)
ZonePolygons(lat, lng, damageZones, index) ==
    IF index > Len(damageZones) THEN <<>>
    ELSE (IF ZoneDrawn(lat, lng, damageZones[index])
          THEN <<ZonePolygon(damageZones[index], index)>> ELSE <<>>)
         \o ZonePolygons(lat, lng, damageZones, index + 1)

(* The polygons updateHazardousAreaVisualization sets as circleData. *)
updateHazardousAreaVisualization(lat, lng, damageZones) ==
    IF Len(damageZones) = 0
    THEN IF generateCircleCoordinates(lat, lng, FallbackRadius) > 3
         THEN << [ name |-> "Thermal Burns Hazard Zone (Fallback)", zone |-> 0,
                   radius |-> FallbackRadius, severity |-> 5 ] >>
         ELSE <<>>
    ELSE ZonePolygons(lat, lng, damageZones, 1)

(* The polygon updateCircleVisualization sets as circleData. *)
updateCircleVisualization(lat, lng, radius) ==
    IF radius > 0 /\ generateCircleCoordinates(lat, lng, radius) > 3
    THEN << [ name |-> "Impact Radius", zone |-> 0, radius |-> radius,
              severity |-> 0 ] >>
    ELSE <<>>

(* A row of the results tab that is rendered only for a truthy number. *)
ShownIfTruthy(o) == IF Truthy(o) THEN o ELSE None

(* A zone of the results tab: description, (radius_km || 0),              *)
(* (severity_level || 0), the border colour zone.color || '#ff3333' and   *)
(* the icon chosen by zone.effect_type === 'thermal'.                     *)
ZoneRow(zone) ==
    [ description |-> Read(zone, "description"),
      radius_km |-> ZoneRadiusKm(zone),
      severity_level |-> NumberOr(Read(zone, "severity_level"), 0),
      color |-> IF "color" \in DOMAIN zone THEN zone["color"] ELSE "#ff3333",
      thermal |-> Read(zone, "effect_type") = Some("thermal") ]

(* What the results tab shows of a response: the TNT equivalent          *)
(* (... || 0), the kinetic energy, the impact type (... || 'Unknown'),    *)
(* the altitude, crater and magnitude rows, the zone rows and the         *)
(* casualty numbers; <<>> for what is not rendered.                       *)
ResultsTab(response) ==
    [ tnt_equivalent_megatons |->
          NumberOr(Read(response,
              "impact_analysis.energy_calculations.tnt_equivalent_megatons"), 0),
      kinetic_energy_joules |->
          Read(response, "impact_analysis.energy_calculations.kinetic_energy_joules"),
      impact_type |->
          IF "impact_analysis.impact_mechanics.impact_type" \in DOMAIN response
          THEN response["impact_analysis.impact_mechanics.impact_type"]
          ELSE "Unknown",
      airburst_altitude_km |->
          ShownIfTruthy(Read(response,
              "impact_analysis.impact_mechanics.airburst_altitude_km")),
      crater_diameter_m |->
          ShownIfTruthy(Read(response,
              "impact_analysis.impact_mechanics.crater_diameter_m")),
      seismic_magnitude |->
          ShownIfTruthy(Read(response,
              "impact_analysis.impact_mechanics.seismic_magnitude")),
      zones |->
          IF "damage_analysis.impact_radii_by_severity" \in DOMAIN response
          THEN [ i \in 1..Len(response["damage_analysis.impact_radii_by_severity"]) |->
                     ZoneRow(response["damage_analysis.impact_radii_by_severity"][i]) ]
          ELSE <<>>,
      fatalities |->
          Read(response, "casualty_analysis.estimated_casualties.fatalities"),
      severe_injuries |->
          Read(response, "casualty_analysis.estimated_casualties.severe_injuries"),
      light_injuries |->
          Read(response, "casualty_analysis.estimated_casualties.light_injuries") ]

(* The request of an engine that is not being called. *)
IdleRequest ==
    [ diameter |-> 200, mass |-> None, density |-> None, composition |-> None,
      velocity |-> None, angle |-> None, population_density |-> None,
      deflection_distance |-> None, warning_time |-> None, available_energy |-> None ]

----------------------------------------------------------------------------
(* Globe screen: the responses of the analysis service *)

(* A zone of the report with the fields the report is specified to carry. *)
SpecifiedZone(z) ==
    [ type |-> z.type, description |-> z.type, radius_meters |-> z.radius_meters,
      radius_km |-> RadiusKm(z.radius_meters), severity_level |-> z.severity_level,
      color_code |-> "#FF0000" ]

(* The report as JSON with the specified field names: each leaf under its *)
(* dotted path; a null leaf and an absent section have no path.           *)
SpecifiedResponse(report) ==
    LET e == report.energy_analysis
        c == report.casualty_estimates
        zs == report.impact_radii_gradient
    IN  [ p \in {"energy_analysis.kinetic_energy_joules",
                 "energy_analysis.tnt_equivalent_megatons",
                 "energy_analysis.impact_type",
                 "energy_analysis.seismic_magnitude",
                 "impact_radii_gradient",
                 "casualty_estimates.fatalities",
                 "casualty_estimates.severe_injuries",
                 "casualty_estimates.moderate_injuries",
                 "casualty_estimates.light_injuries"}
                \cup (IF IsSome(e.airburst_altitude_km)
                      THEN {"energy_analysis.airburst_altitude_km"} ELSE {})
                \cup (IF IsSome(e.crater_diameter_m)
                      THEN {"energy_analysis.crater_diameter_m"} ELSE {})
                \cup (IF IsSome(report.deflection_analysis)
                      THEN {"deflection_analysis.feasible"} ELSE {}) |->
            CASE p = "energy_analysis.kinetic_energy_joules" -> e.kinetic_energy_joules
              [] p = "energy_analysis.tnt_equivalent_megatons" -> e.tnt_equivalent_megatons
              [] p = "energy_analysis.impact_type" -> e.impact_type
              [] p = "energy_analysis.seismic_magnitude" -> e.seismic_magnitude
              [] p = "energy_analysis.airburst_altitude_km" -> Get(e.airburst_altitude_km)
              [] p = "energy_analysis.crater_diameter_m" -> Get(e.crater_diameter_m)
              [] p = "impact_radii_gradient" ->
                     [i \in 1..Len(zs) |-> SpecifiedZone(zs[i])]
              [] p = "casualty_estimates.fatalities" -> c.fatalities
              [] p = "casualty_estimates.severe_injuries" -> c.severe_injuries
              [] p = "casualty_estimates.moderate_injuries" -> c.moderate_injuries
              [] p = "casualty_estimates.light_injuries" -> c.light_injuries
              [] p = "deflection_analysis.feasible" ->
                     Get(report.deflection_analysis).feasible ]

(* The requests whose reports the service answers with. *)
AnsweredRequests ==
    { [IdleRequest EXCEPT !.mass = Some(2), !.velocity = Some(1000)],
      [IdleRequest EXCEPT !.mass = Some(2), !.velocity = Some(30000),
                          !.deflection_distance = Some(6000),
                          !.warning_time = Some(3),
                          !.available_energy = Some(4)] }

(* A response in which the zone list is under the path the Globe screen   *)
(* reads, with radius_km missing, zero, negative or positive.             *)

ClientZone(r) ==
    IF IsSome(r)
    THEN [description |-> "zone", effect_type |-> "overpressure",
          radius_km |-> Get(r), severity_level |-> 3]
    ELSE [description |-> "zone", effect_type |-> "overpressure",
          severity_level |-> 3]

ClientZoneLists ==
    { <<>>,
      <<ClientZone(Some(30)), ClientZone(None), ClientZone(Some(12))>>,
      <<ClientZone(Some(0)), ClientZone(Some(-5))>> }

ClientShapedResponse(zs) ==
    [ p \in {"damage_analysis.impact_radii_by_severity",
             "impact_analysis.impact_mechanics.impact_type"} |->
        IF p = "damage_analysis.impact_radii_by_severity" THEN zs ELSE "airburst" ]

ResponseInputs ==
    {SpecifiedResponse(BuildReport(r)) : r \in AnsweredRequests}
        \cup {ClientShapedResponse(zs) : zs \in ClientZoneLists}

----------------------------------------------------------------------------
(* Globe screen: state and handlers.  Coordinates are in 1e-5 degrees.    *)

(* parseFloat(x).toFixed(4): rounded to 4 decimals, half away from zero. *)
ToFixed4(x) ==
    IF x >= 0 THEN ((x + 5) \div 10) * 10 ELSE 0 - (((0 - x) + 5) \div 10) * 10

Coordinates(lat, lng) == [lat |-> ToFixed4(lat), lng |-> ToFixed4(lng)]

(* The first quickLocations: New York and Pacific Ocean (Central). *)
quickLocations ==
    { [name |-> "New York, USA", lat |-> 4071280, lng |-> -7400600],
      [name |-> "Pacific Ocean (Central)", lat |-> 0, lng |-> -14000000] }

GlobeClickInputs ==
    { [lat |-> 5150744, lng |-> -12776], [lat |-> 0, lng |-> 3] }

NoGlobeParameters ==
    [diameter |-> None, mass |-> None, density |-> None, composition |-> None]

InitialScenarioData == [velocity_kms |-> Some(25), angle_degrees |-> Some(45)]

InitialEditableParams ==
    [ diameter |-> None, mass |-> None, density |-> None, composition |-> None,
      velocity_kms |-> Some(25), angle_degrees |-> Some(45),
      impact_latitude |-> None, impact_longitude |-> None,
      population_density |-> Some(100) ]

(* What Scenario Setup stores with View on Globe: it has run an analysis, *)
(* so the diameter and the location are truthy and the response is there. *)
StoredParameterInputs ==
    { [diameter |-> Some(1000), mass |-> Some(1300000), density |-> Some(2500),
       composition |-> Some("ROCKY")] }

SimulationDataInputs ==
    [ impact_location : {[latitude |-> 3567621, longitude |-> 13965034]},
      velocity_kms : {Some(20)},
      angle_degrees : {Some(0), Some(45)},
      asteroid_parameters : StoredParameterInputs,
      physics_analysis : ResponseInputs ]

(* x || '' and x || 25.0: a falsy stored number gives the default. *)
TruthyOr(o, d) == IF Truthy(o) THEN o ELSE d

(* The zone list performPhysicsAnalysis and the mount effect look for. *)
DamageZonesPath == "damage_analysis.impact_radii_by_severity"

(* The mount effect: load 'simulationData', else 'currentImpactLocation'. *)
GlobeMount ==
    /\ globePhase = "unmounted"
    /\ globePhase' = "mounted"
    /\ IF IsSome(simulationData)
       THEN LET data == Get(simulationData)
                coords == Coordinates(data.impact_location.latitude,
                                      data.impact_location.longitude)
                located == data.impact_location.latitude # 0
                           /\ data.impact_location.longitude # 0
            IN  /\ physicsResponse' = Some(data.physics_analysis)
                /\ selectedCoordinates' =
                       IF located THEN Some(coords) ELSE selectedCoordinates
                /\ circleData' =
                       IF located /\ DamageZonesPath \in DOMAIN data.physics_analysis
                       THEN updateHazardousAreaVisualization(
                                coords.lat, coords.lng,
                                data.physics_analysis[DamageZonesPath])
                       ELSE circleData
                /\ globeAsteroidParameters' = data.asteroid_parameters
                /\ editableParams' =
                       [ editableParams EXCEPT
                           !.diameter = TruthyOr(data.asteroid_parameters.diameter, None),
                           !.mass = TruthyOr(data.asteroid_parameters.mass, None),
                           !.density = TruthyOr(data.asteroid_parameters.density, None),
                           !.composition = data.asteroid_parameters.composition,
                           !.velocity_kms = TruthyOr(data.velocity_kms, Some(25)),
                           !.angle_degrees = TruthyOr(data.angle_degrees, Some(45)),
                           !.impact_latitude =
                               TruthyOr(Some(data.impact_location.latitude), None),
                           !.impact_longitude =
                               TruthyOr(Some(data.impact_location.longitude), None) ]
                /\ globeScenarioData' =
                       IF Truthy(data.velocity_kms) \/ Truthy(data.angle_degrees)
                       THEN [ velocity_kms |-> TruthyOr(data.velocity_kms, Some(25)),
                              angle_degrees |-> TruthyOr(data.angle_degrees, Some(45)) ]
                       ELSE globeScenarioData
       ELSE /\ selectedCoordinates' =
                   IF IsSome(currentImpactLocation)
                   THEN Some(Coordinates(Get(currentImpactLocation).lat,
                                         Get(currentImpactLocation).lng))
                   ELSE selectedCoordinates
            /\ UNCHANGED <<physicsResponse, circleData, globeAsteroidParameters,
                           editableParams, globeScenarioData>>
    /\ UNCHANGED <<simulationData, currentImpactLocation, analysisError, isAnalyzing,
                   pendingAnalysis, formEdits>>
    /\ UNCHANGED outsideGlobe

(* The effect on [impactRadius, selectedCoordinates, physicsResponse]:    *)
(* with coordinates and no response, the impact circle after 100 ms.      *)
ImpactCircle ==
    updateCircleVisualization(Get(selectedCoordinates).lat,
                              Get(selectedCoordinates).lng, DefaultImpactRadius)

updateCircleEffect ==
    /\ globePhase = "mounted"
    /\ IsSome(selectedCoordinates)
    /\ physicsResponse = None
    /\ circleData # ImpactCircle
    /\ circleData' = ImpactCircle
    /\ UNCHANGED <<simulationData, globePhase, selectedCoordinates,
                   globeAsteroidParameters, globeScenarioData, editableParams,
                   physicsResponse, analysisError, isAnalyzing, pendingAnalysis,
                   formEdits, currentImpactLocation>>
    /\ UNCHANGED outsideGlobe

handleGlobeClick(coords) ==
    /\ globePhase = "mounted"
    /\ selectedCoordinates' = Some(Coordinates(coords.lat, coords.lng))
    /\ editableParams' =
           [ editableParams EXCEPT !.impact_latitude = Some(ToFixed4(coords.lat)),
                                   !.impact_longitude = Some(ToFixed4(coords.lng)) ]
    /\ physicsResponse' = None
    /\ analysisError' = None
    /\ UNCHANGED <<simulationData, globePhase, globeAsteroidParameters,
                   globeScenarioData, isAnalyzing, pendingAnalysis, circleData,
                   formEdits, currentImpactLocation>>
    /\ UNCHANGED outsideGlobe

(* A quick-location shortcut of the rerun tab. *)
handleQuickLocationSelect(location) ==
    /\ globePhase = "mounted"
    /\ selectedCoordinates' = Some(Coordinates(location.lat, location.lng))
    /\ editableParams' =
           [ editableParams EXCEPT !.impact_latitude = Some(ToFixed4(location.lat)),
                                   !.impact_longitude = Some(ToFixed4(location.lng)) ]
    /\ physicsResponse' = None
    /\ analysisError' = None
    /\ UNCHANGED <<simulationData, globePhase, globeAsteroidParameters,
                   globeScenarioData, isAnalyzing, pendingAnalysis, circleData,
                   formEdits, currentImpactLocation>>
    /\ UNCHANGED outsideGlobe

(* The rerun form.  A text field holds '' (<<>>) or what was typed; a     *)
(* typed "0" is a non-empty string, so it is truthy, but parses to 0.     *)
MaxFormEdits == 1

FormEditInputs ==
    { <<"diameter", None>>, <<"diameter", Some(0)>>, <<"diameter", Some(300)>>,
      <<"mass", Some(9)>>, <<"density", Some(3000)>>, <<"composition", Some("iron")>>,
      <<"velocity_kms", Some(30)>>, <<"angle_degrees", Some(60)>>,
      <<"impact_latitude", Some(1000000)>>, <<"impact_longitude", Some(-2000000)>>,
      <<"population_density", Some(500)>> }

(* onChange of an input of the rerun form *)
EditParameter(field, value) ==
    /\ globePhase = "mounted"
    /\ formEdits < MaxFormEdits
    /\ formEdits' = formEdits + 1
    /\ editableParams' = [editableParams EXCEPT ![field] = value]
    /\ UNCHANGED <<simulationData, globePhase, selectedCoordinates,
                   globeAsteroidParameters, globeScenarioData, physicsResponse,
                   analysisError, isAnalyzing, pendingAnalysis, circleData,
                   currentImpactLocation>>
    /\ UNCHANGED outsideGlobe

(* parseFloat(typed) || previous *)
ParsedOr(typed, previous) == IF Truthy(typed) THEN typed ELSE previous

(* The query performPhysicsAnalysis builds from the state it sees. *)
GlobeQuery(parameters, scenario, coordinates, form) ==
    [ diameter |-> Get(parameters.diameter),
      mass |-> TruthyOr(parameters.mass, None),
      density |-> TruthyOr(parameters.density, None),
      composition |-> parameters.composition,
      velocity |-> IF Truthy(scenario.velocity_kms)
                   THEN Some(Get(scenario.velocity_kms) * 1000) ELSE None,
      angle |-> TruthyOr(scenario.angle_degrees, None),
      impact_latitude |-> coordinates.lat,
      impact_longitude |-> coordinates.lng,
      population_density |-> form.population_density ]

(* performPhysicsAnalysis up to its fetch, on the state of the render it  *)
(* was created in: whether it goes on to fetch, and with what.            *)
AnalysisStarts(parameters, coordinates) ==
    IsSome(coordinates) /\ Truthy(parameters.diameter)

(* Run Simulation: the handler sets the coordinates, the asteroid         *)
(* parameters and the scenario from the form and calls                    *)
(* performPhysicsAnalysis, which reads the state of the current render.   *)
RerunSimulation ==
    /\ globePhase = "mounted"
    /\ ~isAnalyzing
    /\ IsSome(editableParams.diameter)
    /\ IsSome(editableParams.impact_latitude)
    /\ IsSome(editableParams.impact_longitude)
    /\ selectedCoordinates' =
           Some(Coordinates(Get(editableParams.impact_latitude),
                            Get(editableParams.impact_longitude)))
    /\ globeAsteroidParameters' =
           [ diameter |-> ParsedOr(editableParams.diameter,
                                   globeAsteroidParameters.diameter),
             mass |-> ParsedOr(editableParams.mass, globeAsteroidParameters.mass),
             density |-> ParsedOr(editableParams.density,
                                  globeAsteroidParameters.density),
             composition |-> IF IsSome(editableParams.composition)
                             THEN editableParams.composition
                             ELSE globeAsteroidParameters.composition ]
    /\ globeScenarioData' =
           [ velocity_kms |-> editableParams.velocity_kms,
             angle_degrees |-> editableParams.angle_degrees ]
    /\ IF AnalysisStarts(globeAsteroidParameters, selectedCoordinates)
       THEN /\ isAnalyzing' = TRUE
            /\ analysisError' = None
            /\ pendingAnalysis' =
                   Some(GlobeQuery(globeAsteroidParameters, globeScenarioData,
                                   Get(selectedCoordinates), editableParams))
       ELSE UNCHANGED <<isAnalyzing, analysisError, pendingAnalysis>>
    /\ UNCHANGED <<simulationData, globePhase, editableParams, physicsResponse,
                   circleData, formEdits, currentImpactLocation>>
    /\ UNCHANGED outsideGlobe

(* The fetch resolves: the response is stored, and its zones are drawn    *)
(* around the coordinates the call started with.                          *)
AnalysisResponded(data) ==
    /\ IsSome(pendingAnalysis)
    /\ physicsResponse' = Some(data)
    /\ circleData' =
           IF DamageZonesPath \in DOMAIN data
           THEN updateHazardousAreaVisualization(
                    Get(pendingAnalysis).impact_latitude,
                    Get(pendingAnalysis).impact_longitude, data[DamageZonesPath])
           ELSE circleData
    /\ isAnalyzing' = FALSE
    /\ pendingAnalysis' = None
    /\ UNCHANGED <<simulationData, globePhase, selectedCoordinates,
                   globeAsteroidParameters, globeScenarioData, editableParams,
                   analysisError, formEdits, currentImpactLocation>>
    /\ UNCHANGED outsideGlobe

(* The fetch fails or the status is not ok. *)
AnalysisFailed ==
    /\ IsSome(pendingAnalysis)
    /\ analysisError' = Some("API call failed")
    /\ isAnalyzing' = FALSE
    /\ pendingAnalysis' = None
    /\ UNCHANGED <<simulationData, globePhase, selectedCoordinates,
                   globeAsteroidParameters, globeScenarioData, editableParams,
                   physicsResponse, circleData, formEdits, currentImpactLocation>>
    /\ UNCHANGED outsideGlobe

----------------------------------------------------------------------------
(* Asteroid search: the debounced autocomplete.  Time is in ticks of      *)
(* 100 ms.                                                                *)

MillisecondsPerTick == 100
DebounceTicks == 300 \div MillisecondsPerTick
MinQueryLength == 2

(* The number of changes of the text that are followed. *)
MaxChanges == 3

(* The texts of the search box. *)
QueryTexts == { <<>>, <<"a">>, <<"a", "p">>, <<"a", "p", "o">> }

(* clearTimeout that cancels nothing. *)
ClearTimeout_Nothing(pending, id) == pending

(* clearTimeout(timeoutId): the timer is no longer pending (nothing       *)
(* happens if it has fired).                                              *)
ClearTimeout(pending, id) == {t \in pending : t.id # id}

(* setTimeout(() => fetchAutocompleteSuggestions(searchQuery), 300) of    *)
(* the render in which the text is query.                                 *)
SetTimeout(pending, id, query) ==
    pending \cup {[id |-> id, query |-> query, due |-> DebounceTicks]}

(* The first run of the debounce effect. *)
SearchMount ==
    /\ searchPhase = "unmounted"
    /\ searchPhase' = "mounted"
    /\ timers' = SetTimeout(timers, changes, searchQuery)
    /\ timeoutId' = changes
    /\ UNCHANGED <<searchQuery, heldFor, changes, issued, inFlight, suggestions,
                   showDropdown, isLoading>>
    /\ UNCHANGED outsideSearch

(* setSearchQuery(text) with another text: the effect's cleanup clears    *)
(* its timer and the effect runs again.                                   *)
setSearchQuery(text) ==
    /\ searchPhase = "mounted"
    /\ text # searchQuery
    /\ changes < MaxChanges
    /\ changes' = changes + 1
    /\ searchQuery' = text
    /\ heldFor' = 0
    /\ timers' = SetTimeout(ClearTimeout(timers, timeoutId), changes', text)
    /\ timeoutId' = changes'
    /\ UNCHANGED <<searchPhase, issued, inFlight, suggestions, showDropdown,
                   isLoading>>
    /\ UNCHANGED outsideSearch

(* 100 ms pass. *)
Tick ==
    /\ searchPhase = "mounted"
    /\ heldFor < DebounceTicks \/ \E t \in timers : t.due > 0
    /\ heldFor' = Min(DebounceTicks, heldFor + 1)
    /\ timers' = {[t EXCEPT !.due = Max(0, t.due - 1)] : t \in timers}
    /\ UNCHANGED <<searchPhase, searchQuery, timeoutId, changes, issued, inFlight,
                   suggestions, showDropdown, isLoading>>
    /\ UNCHANGED outsideSearch

(* A timer that is due fires: fetchAutocompleteSuggestions(query) up to   *)
(* its fetch; a query of fewer than 2 characters empties the suggestions  *)
(* and issues nothing.                                                    *)
fetchAutocompleteSuggestions(t) ==
    /\ t \in timers
    /\ t.due = 0
    /\ timers' = timers \ {t}
    /\ IF Len(t.query) < MinQueryLength
       THEN /\ suggestions' = None
            /\ showDropdown' = FALSE
            /\ UNCHANGED <<issued, inFlight, isLoading>>
       ELSE /\ isLoading' = TRUE
            /\ issued' = Append(issued, t.query)
            /\ inFlight' = inFlight \cup {t.query}
            /\ UNCHANGED <<suggestions, showDropdown>>
    /\ UNCHANGED <<searchPhase, searchQuery, timeoutId, heldFor, changes>>
    /\ UNCHANGED outsideSearch

(* The fetch of query answers with results. *)
SuggestionsArrived(query) ==
    /\ query \in inFlight
    /\ inFlight' = inFlight \ {query}
    /\ suggestions' = Some(query)
    /\ showDropdown' = TRUE
    /\ isLoading' = FALSE
    /\ UNCHANGED <<searchPhase, searchQuery, timers, timeoutId, heldFor, changes,
                   issued>>
    /\ UNCHANGED outsideSearch

(* The fetch of query fails or answers with an error status. *)
SuggestionsFailed(query) ==
    /\ query \in inFlight
    /\ inFlight' = inFlight \ {query}
    /\ suggestions' = None
    /\ showDropdown' = FALSE
    /\ isLoading' = FALSE
    /\ UNCHANGED <<searchPhase, searchQuery, timers, timeoutId, heldFor, changes,
                   issued>>
    /\ UNCHANGED outsideSearch

----------------------------------------------------------------------------
(* Scenario Setup: the actions *)

DiameterEdits == {0, 2000}
DensityEdits == {2000}
MassEdits == {5000}

(* A coordinate of the form is '' (<<>>), a number a quick location put   *)
(* there, or the text the user typed; coordinates are in 1e-5 degrees.    *)
FromList(x) == Some([typed |-> FALSE, value |-> x])
FromText(x) == Some([typed |-> TRUE, value |-> x])

(* !x is false for every non-empty text and for every number but 0. *)
CoordinateTruthy(c) == IsSome(c) /\ (Get(c).typed \/ Get(c).value # 0)

(* Two of the quick locations of the form. *)
ScenarioQuickLocations ==
    { [name |-> "New York, USA", lat |-> 4071280, lng |-> -7400600],
      [name |-> "Pacific Ocean", lat |-> 0, lng |-> -14000000] }

LatitudeTexts == {None, FromText(0)}
LongitudeTexts == {FromText(0)}
VelocityEdits == {30000}
AngleEdits == {1200}

DefaultScenarioData ==
    [ impact_location |-> [latitude |-> None, longitude |-> None],
      velocity_kms |-> Some(25 * MetresPerSecondPerKms),
      angle_degrees |-> Some(45 * AngleUnitsPerDegree) ]

(* The parameter form is rendered once an asteroid is selected. *)
FormShown == setupPhase = "loaded" /\ IsSome(sbdbRecord)

(* The mount effect: read 'selectedAsteroidDetails', extract, and        *)
(* pre-fill the scenario: typical_velocity || prev.velocity_kms,          *)
(* typical_angle || prev.angle_degrees.                                   *)
processAsteroidData ==
    /\ setupPhase = "unmounted"
    /\ setupPhase' = "loaded"
    /\ asteroidParameters' =
           IF IsSome(sbdbRecord) THEN extractParametersFromSBDB(Get(sbdbRecord))
           ELSE asteroidParameters
    /\ scenarioData' =
           IF IsSome(sbdbRecord)
           THEN [scenarioData EXCEPT
                    !.velocity_kms =
                        TruthyOr(asteroidParameters'.typical_velocity, @),
                    !.angle_degrees =
                        TruthyOr(asteroidParameters'.typical_angle, @)]
           ELSE scenarioData
    /\ UNCHANGED <<sbdbRecord, editedFields, apiParams, analysisVars>>
    /\ UNCHANGED outsideSetup

(* onChange of a numeric parameter input: parseFloat(value) || 0 *)
EditDiameter(v) ==
    /\ FormShown
    /\ asteroidParameters' = [asteroidParameters EXCEPT !.diameter = Some(v)]
    /\ editedFields' = editedFields \cup {"diameter"}
    /\ UNCHANGED <<sbdbRecord, setupPhase, apiParams, scenarioData, analysisVars>>
    /\ UNCHANGED outsideSetup

EditDensity(v) ==
    /\ FormShown
    /\ asteroidParameters' = [asteroidParameters EXCEPT !.density = Some(v)]
    /\ editedFields' = editedFields \cup {"density"}
    /\ UNCHANGED <<sbdbRecord, setupPhase, apiParams, scenarioData, analysisVars>>
    /\ UNCHANGED outsideSetup

EditMass(v) ==
    /\ FormShown
    /\ asteroidParameters' = [asteroidParameters EXCEPT !.mass = Some(v)]
    /\ editedFields' = editedFields \cup {"mass"}
    /\ UNCHANGED <<sbdbRecord, setupPhase, apiParams, scenarioData, analysisVars>>
    /\ UNCHANGED outsideSetup

EditComposition(c) ==
    /\ FormShown
    /\ asteroidParameters' = [asteroidParameters EXCEPT !.composition = Some(c)]
    /\ editedFields' = editedFields \cup {"composition"}
    /\ UNCHANGED <<sbdbRecord, setupPhase, apiParams, scenarioData, analysisVars>>
    /\ UNCHANGED outsideSetup

(* A quick-location button: the entry's numbers go into the form. *)
handleLocationSelect(location) ==
    /\ setupPhase = "loaded"
    /\ scenarioData' =
           [scenarioData EXCEPT
               !.impact_location = [latitude |-> FromList(location.lat),
                                    longitude |-> FromList(location.lng)]]
    /\ UNCHANGED <<sbdbRecord, setupPhase, asteroidParameters, editedFields,
                   apiParams, analysisVars>>
    /\ UNCHANGED outsideSetup

(* onChange of the latitude and longitude inputs: the text as typed. *)
handleInputChange(field, value) ==
    /\ setupPhase = "loaded"
    /\ scenarioData' =
           IF field \in {"latitude", "longitude"}
           THEN [scenarioData EXCEPT !.impact_location[field] = value]
           ELSE [scenarioData EXCEPT ![field] = value]
    /\ editedFields' = editedFields \cup {field}
    /\ UNCHANGED <<sbdbRecord, setupPhase, asteroidParameters, apiParams,
                   analysisVars>>
    /\ UNCHANGED outsideSetup

(* The query callPhysicsAPI builds: the diameter, each optional parameter *)
(* that is truthy, the eccentricity and inclination that are defined, the *)
(* velocity (km/s * 1000) and angle that are truthy, and each coordinate  *)
(* that is not ''.                                                        *)
BuildApiParams(p, s) ==
    [ diameter |-> Get(p.diameter),
      mass |-> IF Truthy(p.mass) THEN p.mass ELSE None,
      density |-> IF Truthy(p.density) THEN p.density ELSE None,
      composition |-> p.composition,
      eccentricity |-> p.eccentricity,
      semi_major_axis |-> IF Truthy(p.semi_major_axis) THEN p.semi_major_axis ELSE None,
      inclination |-> p.inclination,
      velocity |-> IF Truthy(s.velocity_kms) THEN s.velocity_kms ELSE None,
      angle |-> IF Truthy(s.angle_degrees) THEN s.angle_degrees ELSE None,
      impact_latitude |->
          IF IsSome(s.impact_location.latitude)
          THEN Some(Get(s.impact_location.latitude).value) ELSE None,
      impact_longitude |->
          IF IsSome(s.impact_location.longitude)
          THEN Some(Get(s.impact_location.longitude).value) ELSE None,
      population_density |-> 100 ]

(* The start of callPhysicsAPI, up to the fetch it awaits. *)
callPhysicsAPI ==
    /\ setupIsAnalyzing' = TRUE
    /\ setupAnalysisError' = None
    /\ apiParams' = Some(BuildApiParams(asteroidParameters, scenarioData))
    /\ setupInFlight' = setupInFlight + 1
    /\ UNCHANGED <<setupPhysicsResponse, showModal>>

(* The Analyze Impact button, disabled while the latitude or longitude is *)
(* falsy or an analysis is running.                                       *)
AnalyzeEnabled ==
    /\ CoordinateTruthy(scenarioData.impact_location.latitude)
    /\ CoordinateTruthy(scenarioData.impact_location.longitude)
    /\ ~setupIsAnalyzing

LocationRequired == "Impact location (latitude and longitude) is required"
DiameterRequired == "Asteroid diameter is required for impact analysis"

(* The body of handleDirectAnalysis: the two checks, then the call. *)
DirectAnalysis ==
    /\ IF ~Truthy(asteroidParameters.diameter)
       THEN /\ setupAnalysisError' = Some(DiameterRequired)
            /\ UNCHANGED <<apiParams, setupIsAnalyzing, setupPhysicsResponse,
                           showModal, setupInFlight>>
       ELSE IF ~CoordinateTruthy(scenarioData.impact_location.latitude)
               \/ ~CoordinateTruthy(scenarioData.impact_location.longitude)
       THEN /\ setupAnalysisError' = Some(LocationRequired)
            /\ UNCHANGED <<apiParams, setupIsAnalyzing, setupPhysicsResponse,
                           showModal, setupInFlight>>
       ELSE callPhysicsAPI
    /\ UNCHANGED <<sbdbRecord, setupPhase, asteroidParameters, editedFields,
                   scenarioData>>
    /\ UNCHANGED outsideSetup

(* A click on Analyze Impact. *)
handleDirectAnalysis ==
    /\ setupPhase = "loaded"
    /\ AnalyzeEnabled
    /\ DirectAnalysis

(* The number of calls in flight that are followed. *)
MaxInFlight == 2

(* The form's onSubmit: preventDefault, then handleDirectAnalysis. *)
handleSubmit ==
    /\ setupPhase = "loaded"
    /\ setupInFlight < MaxInFlight
    /\ DirectAnalysis

(* validateForm: the fields it would put an error on.  Nothing calls it. *)
validateForm(s, p, selected) ==
    LET latitude == s.impact_location.latitude
        longitude == s.impact_location.longitude
    IN  { f \in {"latitude", "longitude", "velocity_kms", "angle_degrees", "diameter"} :
            \/ /\ f = "latitude"
               /\ \/ latitude = None
                  \/ /\ IsSome(latitude)
                     /\ \/ Get(latitude).value < -90 * 100000
                        \/ Get(latitude).value > 90 * 100000
            \/ /\ f = "longitude"
               /\ \/ longitude = None
                  \/ /\ IsSome(longitude)
                     /\ \/ Get(longitude).value < -180 * 100000
                        \/ Get(longitude).value > 180 * 100000
            \/ /\ f = "velocity_kms"
               /\ IsSome(s.velocity_kms)
               /\ \/ Get(s.velocity_kms) < 1 * MetresPerSecondPerKms
                  \/ Get(s.velocity_kms) > 100 * MetresPerSecondPerKms
            \/ /\ f = "angle_degrees"
               /\ IsSome(s.angle_degrees)
               /\ \/ Get(s.angle_degrees) < 5 * AngleUnitsPerDegree
                  \/ Get(s.angle_degrees) > 90 * AngleUnitsPerDegree
            \/ /\ f = "diameter"
               /\ selected
               /\ Truthy(p.diameter)
               /\ Get(p.diameter) <= 0 }

(* The fetch answers: the response is kept and the modal opens. *)
SuccessResponse == [status |-> "success"]

AnalysisSucceeded ==
    /\ setupInFlight > 0
    /\ setupInFlight' = setupInFlight - 1
    /\ setupPhysicsResponse' = Some(SuccessResponse)
    /\ showModal' = TRUE
    /\ setupIsAnalyzing' = FALSE
    /\ UNCHANGED <<sbdbRecord, setupPhase, asteroidParameters, editedFields,
                   apiParams, scenarioData, setupAnalysisError>>
    /\ UNCHANGED outsideSetup

(* The fetch fails or answers with an error status. *)
AnalysisErrored ==
    /\ setupInFlight > 0
    /\ setupInFlight' = setupInFlight - 1
    /\ setupAnalysisError' = Some("API call failed")
    /\ setupIsAnalyzing' = FALSE
    /\ UNCHANGED <<sbdbRecord, setupPhase, asteroidParameters, editedFields,
                   apiParams, scenarioData, setupPhysicsResponse, showModal>>
    /\ UNCHANGED outsideSetup

(* The modal's Close button. *)
CloseModal ==
    /\ showModal
    /\ showModal' = FALSE
    /\ UNCHANGED <<sbdbRecord, setupPhase, asteroidParameters, editedFields,
                   apiParams, scenarioData, setupIsAnalyzing, setupAnalysisError,
                   setupPhysicsResponse, setupInFlight>>
    /\ UNCHANGED outsideSetup

----------------------------------------------------------------------------
(* Choosing the asteroid: the predefined search, the custom form and the  *)
(* mount of Scenario Setup.  Diameters of the custom form are in metres.  *)

(* The number of selections and creations that are followed. *)
MaxChoices == 3

(* Three records the predefined search may return. *)
PredefinedChoices ==
    {r \in SBDBRecords : r.density = None /\ r.mass = None /\ r.albedo = Some(20)}

(* What the custom form may hold when it is submitted. *)
CustomForms ==
    [ diameter_km : {50, 500, 1500}, type : {"stone asteroid"},
      velocity_kms : {25}, angle_degrees : {45}, orbit_type : {"elliptical"} ]

(* validateForm of the custom form: no error is found. *)
CustomValid(asteroidData) ==
    /\ ~(asteroidData.diameter_km < 70 \/ asteroidData.diameter_km > 1500)
    /\ asteroidData.type # ""
    /\ ~(asteroidData.velocity_kms < 1 \/ asteroidData.velocity_kms > 100)
    /\ ~(asteroidData.angle_degrees < 5 \/ asteroidData.angle_degrees > 90)

(* The record the custom form stores. *)
customAsteroid(asteroidData) ==
    [ diameter_km |-> asteroidData.diameter_km, type |-> asteroidData.type,
      velocity_kms |-> asteroidData.velocity_kms,
      angle_degrees |-> asteroidData.angle_degrees,
      orbit_type |-> asteroidData.orbit_type,
      name |-> "Custom Asteroid",
      hazardous |-> asteroidData.diameter_km > 140 ]

(* A card of the mode selection. *)
ChooseMode(mode) ==
    /\ route = "simulation"
    /\ route' = mode
    /\ UNCHANGED <<selectionVars, setupVars, globeVars>>
    /\ UNCHANGED outsideScreens

(* The predefined search: Select on a result. *)
handleAsteroidSelect(asteroidData) ==
    /\ route = "predefined"
    /\ choices < MaxChoices
    /\ storedSelectedAsteroid' = Some(asteroidData)
    /\ sbdbRecord' = Some(asteroidData)
    /\ route' = "scenario-setup"
    /\ lastChosen' = Some(asteroidData)
    /\ choices' = choices + 1
    /\ UNCHANGED <<setupPhase, asteroidParameters, editedFields, apiParams,
                   scenarioData, analysisVars, globeVars>>
    /\ UNCHANGED outsideScreens

(* The custom form: handleSubmit with a form validateForm accepts. *)
CustomAsteroid_handleSubmit(asteroidData) ==
    /\ route = "custom"
    /\ choices < MaxChoices
    /\ CustomValid(asteroidData)
    /\ storedSelectedAsteroid' = Some(customAsteroid(asteroidData))
    /\ route' = "scenario-setup"
    /\ lastChosen' = Some(customAsteroid(asteroidData))
    /\ choices' = choices + 1
    /\ UNCHANGED <<setupVars, globeVars>>
    /\ UNCHANGED outsideScreens

(* Scenario Setup is rendered on its route and its mount effect runs. *)
ScenarioSetupMounts ==
    /\ route = "scenario-setup"
    /\ processAsteroidData

(* Back to Mode Selection: Scenario Setup is unmounted and its state is   *)
(* discarded; localStorage stays.                                         *)
BackToModeSelection ==
    /\ route = "scenario-setup"
    /\ setupPhase = "loaded"
    /\ route' = "simulation"
    /\ setupPhase' = "unmounted"
    /\ asteroidParameters' = NoParameters
    /\ editedFields' = {}
    /\ apiParams' = None
    /\ scenarioData' = DefaultScenarioData
    /\ setupIsAnalyzing' = FALSE
    /\ setupAnalysisError' = None
    /\ setupPhysicsResponse' = None
    /\ showModal' = FALSE
    /\ UNCHANGED <<sbdbRecord, setupInFlight, selectionVars, globeVars>>
    /\ UNCHANGED outsideScreens

----------------------------------------------------------------------------
(* The impact location between Scenario Setup and the globe screen: the   *)
(* older Scenario Setup, whose quick locations open the globe, and the    *)
(* globe screen that reads 'currentImpactLocation' on its mount.          *)
(* Coordinates are in 1e-5 degrees.                                       *)

(* The number of confirmations that are followed. *)
MaxConfirmations == 2

(* The quick locations of the older Scenario Setup. *)
SetupQuickLocations ==
    { [name |-> "New York, USA", lat |-> 4071280, lng |-> -7400600],
      [name |-> "London, UK", lat |-> 5150740, lng |-> -12780],
      [name |-> "Tokyo, Japan", lat |-> 3567620, lng |-> 13965030],
      [name |-> "Sydney, Australia", lat |-> -3386880, lng |-> 15120930],
      [name |-> "Cairo, Egypt", lat |-> 3004440, lng |-> 3123570],
      [name |-> "Rio de Janeiro, Brazil", lat |-> -2290680, lng |-> -4317290],
      [name |-> "Mumbai, India", lat |-> 1907600, lng |-> 7287770],
      [name |-> "Pacific Ocean", lat |-> 0, lng |-> -14000000] }

(* Three of the quick locations of the globe screen. *)
GlobeQuickLocations ==
    { [name |-> "New York, USA", lat |-> 4071280, lng |-> -7400600],
      [name |-> "Pacific Ocean (Central)", lat |-> 0, lng |-> -14000000],
      [name |-> "Arctic Ocean", lat |-> 8500000, lng |-> 0] }

(* Where the user may click on the globe. *)
HandoffClickInputs == { [lat |-> 1234567, lng |-> -7654321], [lat |-> 0, lng |-> 0] }

(* A value of 'impactLocation' that JSON.parse rejects. *)
Unparsable == [text |-> "not JSON"]

(* localStorage.removeItem that removes nothing. *)
removeItem_Nothing(stored) == stored

(* localStorage.removeItem(key): the key is absent afterwards. *)
removeItem(stored) == None

(* The mount effect of Scenario Setup that takes the confirmed location:  *)
(* a stored value that parses goes into impact_location, as the strings   *)
(* it holds, and the key is removed; one that does not parse is logged.   *)
impactLocationEffect ==
    /\ route = "scenario-setup"
    /\ setupPhase = "unmounted"
    /\ setupPhase' = "loaded"
    /\ IF impactLocation = None \/ impactLocation = Some(Unparsable)
       THEN UNCHANGED <<scenarioData, impactLocation>>
       ELSE /\ scenarioData' =
                   [scenarioData EXCEPT
                       !.impact_location =
                           [latitude |-> FromText(Get(impactLocation).lat),
                            longitude |-> FromText(Get(impactLocation).lng)]]
            /\ impactLocation' = removeItem(impactLocation)
    /\ UNCHANGED <<sbdbRecord, asteroidParameters, editedFields, apiParams,
                   analysisVars, globeVars, route, manualCoords, selectedMarker,
                   confirmations>>
    /\ UNCHANGED outsideHandoff

(* The page of Scenario Setup is reloaded: the component starts again     *)
(* from its initial state; localStorage stays.                            *)
ReloadScenarioSetup ==
    /\ route = "scenario-setup"
    /\ setupPhase = "loaded"
    /\ setupPhase' = "unmounted"
    /\ scenarioData' = DefaultScenarioData
    /\ UNCHANGED <<sbdbRecord, asteroidParameters, editedFields, apiParams,
                   analysisVars, globeVars, route, handoffVars>>
    /\ UNCHANGED outsideHandoff

(* A quick-location button of the older Scenario Setup: the entry's       *)
(* numbers are stored and the globe screen is opened; Scenario Setup is   *)
(* unmounted and its state discarded.                                     *)
handleLocationSelectOnMap(location) ==
    /\ route = "scenario-setup"
    /\ setupPhase = "loaded"
    /\ currentImpactLocation' = Some([lat |-> location.lat, lng |-> location.lng])
    /\ route' = "globe"
    /\ setupPhase' = "unmounted"
    /\ scenarioData' = DefaultScenarioData
    /\ UNCHANGED <<sbdbRecord, asteroidParameters, editedFields, apiParams,
                   analysisVars, handoffVars>>
    /\ UNCHANGED <<simulationData, globePhase, selectedCoordinates,
                   globeAsteroidParameters, globeScenarioData, editableParams,
                   physicsResponse, analysisError, isAnalyzing, pendingAnalysis,
                   circleData, formEdits>>
    /\ UNCHANGED outsideHandoff

(* What the handlers of the globe screen of this section leave alone. *)
globeAnalysisVars ==
    <<simulationData, globeAsteroidParameters, globeScenarioData, editableParams,
      physicsResponse, analysisError, isAnalyzing, pendingAnalysis, circleData,
      formEdits>>

(* The mount effect of the globe screen: stored coordinates that are both *)
(* truthy are selected, put into the manual fields and marked; the key is *)
(* removed once it has been parsed.                                       *)
GlobeScreenMount ==
    /\ route = "globe"
    /\ globePhase = "unmounted"
    /\ globePhase' = "mounted"
    /\ IF IsSome(currentImpactLocation)
       THEN LET coordinates == Get(currentImpactLocation)
            IN  /\ IF coordinates.lat # 0 /\ coordinates.lng # 0
                   THEN /\ selectedCoordinates' =
                               Some(Coordinates(coordinates.lat, coordinates.lng))
                        /\ manualCoords' =
                               Some(Coordinates(coordinates.lat, coordinates.lng))
                        /\ selectedMarker' =
                               Some([lat |-> coordinates.lat, lng |-> coordinates.lng])
                   ELSE UNCHANGED <<selectedCoordinates, manualCoords, selectedMarker>>
                /\ currentImpactLocation' = None
       ELSE UNCHANGED <<selectedCoordinates, manualCoords, selectedMarker,
                        currentImpactLocation>>
    /\ UNCHANGED <<globeAnalysisVars, setupVars, route, impactLocation, confirmations>>
    /\ UNCHANGED outsideHandoff

(* A click on the globe of this screen. *)
GlobeScreen_handleGlobeClick(coords) ==
    /\ route = "globe"
    /\ globePhase = "mounted"
    /\ selectedCoordinates' = Some(Coordinates(coords.lat, coords.lng))
    /\ manualCoords' = Some(Coordinates(coords.lat, coords.lng))
    /\ selectedMarker' = Some(Coordinates(coords.lat, coords.lng))
    /\ UNCHANGED <<globeAnalysisVars, globePhase, currentImpactLocation, setupVars,
                   route, impactLocation, confirmations>>
    /\ UNCHANGED outsideHandoff

(* A quick location of this screen: selected and put into the manual      *)
(* fields; the marker is not touched.                                     *)
GlobeScreen_handleQuickLocationSelect(location) ==
    /\ route = "globe"
    /\ globePhase = "mounted"
    /\ selectedCoordinates' = Some(Coordinates(location.lat, location.lng))
    /\ manualCoords' = Some(Coordinates(location.lat, location.lng))
    /\ UNCHANGED <<globeAnalysisVars, globePhase, currentImpactLocation, setupVars,
                   route, impactLocation, selectedMarker, confirmations>>
    /\ UNCHANGED outsideHandoff

(* Clear Selection *)
clearSelection ==
    /\ route = "globe"
    /\ globePhase = "mounted"
    /\ selectedCoordinates' = None
    /\ manualCoords' = None
    /\ selectedMarker' = None
    /\ UNCHANGED <<globeAnalysisVars, globePhase, currentImpactLocation, setupVars,
                   route, impactLocation, confirmations>>
    /\ UNCHANGED outsideHandoff

(* What Confirm stores: the selected coordinates, the radius in km and    *)
(* the area of its disc in km^2.                                          *)
impactData(coordinates, impactRadius) ==
    [ lat |-> coordinates.lat, lng |-> coordinates.lng,
      radius |-> impactRadius \div 10,
      affectedArea |-> (PiNum * impactRadius * impactRadius) \div (PiDen * 100) ]

(* Confirm Location: with a location selected it is stored and Scenario   *)
(* Setup is opened, so the globe screen is unmounted and its state        *)
(* discarded; with none selected nothing happens.                         *)
handleConfirmLocation ==
    /\ route = "globe"
    /\ globePhase = "mounted"
    /\ IsSome(selectedCoordinates)
    /\ confirmations < MaxConfirmations
    /\ confirmations' = confirmations + 1
    /\ impactLocation' = Some(impactData(Get(selectedCoordinates), DefaultImpactRadius))
    /\ route' = "scenario-setup"
    /\ globePhase' = "unmounted"
    /\ selectedCoordinates' = None
    /\ manualCoords' = None
    /\ selectedMarker' = None
    /\ UNCHANGED <<globeAnalysisVars, currentImpactLocation, setupVars>>
    /\ UNCHANGED outsideHandoff

----------------------------------------------------------------------------
(* The engine: one call *)

analyze_impact ==
    /\ outcome = Pending
    /\ outcome' = AnalyzeImpact(request)
    /\ UNCHANGED request
    /\ UNCHANGED outsideEngine

----------------------------------------------------------------------------
(* The engine under concurrent calls: each call validates, resolves and   *)
(* computes on its own inputs; the steps of different calls interleave.   *)

MaxCalls == 2

ConcurrentRequests ==
    { [IdleRequest EXCEPT !.mass = Some(2), !.velocity = Some(1000)],
      [IdleRequest EXCEPT !.mass = Some(20), !.velocity = Some(8000),
                          !.composition = Some("METALLIC")],
      [IdleRequest EXCEPT !.angle = Some(95)],
      [IdleRequest EXCEPT !.deflection_distance = Some(6000),
                          !.warning_time = Some(0),
                          !.available_energy = Some(4)] }

NewCall(req) ==
    [request |-> req, stage |-> "received", parameters |-> None, outcome |-> Pending]

(* CallParameters taken from the first call that resolved any. *)
CallParameters_Shared(cs, i) ==
    LET resolved == {j \in DOMAIN cs : IsSome(cs[j].parameters)}
    IN  Get(cs[CHOOSE j \in resolved : \A k \in resolved : j <= k].parameters)

(* The resolved parameters call i computes with: its own. *)
CallParameters(cs, i) == Get(cs[i].parameters)

ValidateCall(i) ==
    /\ calls[i].stage = "received"
    /\ LET field == ValidateRequest(calls[i].request)
       IN  calls' =
               IF field # ""
               THEN [calls EXCEPT ![i].stage = "returned",
                                  ![i].outcome = [kind |-> "ValidationError",
                                                  field |-> field, report |-> None]]
               ELSE [calls EXCEPT ![i].stage = "validated"]
    /\ UNCHANGED outsideCalls

ResolveCall(i) ==
    /\ calls[i].stage = "validated"
    /\ calls' = [calls EXCEPT ![i].stage = "resolved",
                              ![i].parameters = Some(ResolveParameters(calls[i].request))]
    /\ UNCHANGED outsideCalls

ComputeCall(i) ==
    /\ calls[i].stage = "resolved"
    /\ LET req == calls[i].request
           p == CallParameters(calls, i)
       IN  calls' =
               [calls EXCEPT
                   ![i].stage = "returned",
                   ![i].outcome =
                       IF DeflectionRequested(req)
                          /\ DeflectionDegenerate(p.mass_kg, Get(req.deflection_distance),
                                                  Get(req.warning_time))
                       THEN [kind |-> "ComputationDegenerate",
                             field |-> "required_energy_joules", report |-> None]
                       ELSE [kind |-> "report", field |-> "",
                             report |-> Some(AssembleReport(req, p))]]
    /\ UNCHANGED outsideCalls

----------------------------------------------------------------------------
(* The casualty estimator on a zone list of its own *)

MaxZoneListLen == 2

ZoneRadiusInputs == {0, 500, 1000}
EstimatorDensityInputs == {0, 100, 5000}

ZoneInputs ==
    { [ type |-> ZoneCatalog[k].type, radius_meters |-> r,
        severity_level |-> ZoneCatalog[k].severity_level ] :
        k \in 1..Len(ZoneCatalog), r \in ZoneRadiusInputs }

ZoneListInputs == UNION { [1..n -> ZoneInputs] : n \in 0..MaxZoneListLen }

estimate_casualties ==
    /\ estimate = None
    /\ estimate' = Some(EstimateCasualties(estimatorInput.zones,
                                           estimatorInput.population_density))
    /\ UNCHANGED estimatorInput
    /\ UNCHANGED outsideEstimator

----------------------------------------------------------------------------
(* Specifications *)

SelectionIdle ==
    /\ storedSelectedAsteroid = None
    /\ lastChosen = None
    /\ choices = 0

HandoffIdle ==
    /\ impactLocation = None
    /\ manualCoords = None
    /\ selectedMarker = None
    /\ confirmations = 0

FlowIdle ==
    /\ route = "simulation"
    /\ SelectionIdle
    /\ HandoffIdle

EngineIdle ==
    /\ request = IdleRequest
    /\ outcome = Pending

(* Scenario Setup before its mount effect. *)
SetupUnmounted ==
    /\ setupPhase = "unmounted"
    /\ asteroidParameters = NoParameters
    /\ editedFields = {}
    /\ apiParams = None
    /\ scenarioData = DefaultScenarioData
    /\ setupIsAnalyzing = FALSE
    /\ setupAnalysisError = None
    /\ setupPhysicsResponse = None
    /\ showModal = FALSE
    /\ setupInFlight = 0

SetupIdle ==
    /\ sbdbRecord = None
    /\ SetupUnmounted

SearchIdle ==
    /\ searchPhase = "unmounted"
    /\ searchQuery = <<>>
    /\ timers = {}
    /\ timeoutId = 0
    /\ heldFor = 0
    /\ changes = 0
    /\ issued = <<>>
    /\ inFlight = {}
    /\ suggestions = None
    /\ showDropdown = FALSE
    /\ isLoading = FALSE

EstimatorIdle ==
    /\ estimatorInput = [zones |-> <<>>, population_density |-> 0]
    /\ estimate = None

GlobeIdle ==
    /\ simulationData = None
    /\ currentImpactLocation = None
    /\ globePhase = "unmounted"
    /\ selectedCoordinates = None
    /\ globeAsteroidParameters = NoGlobeParameters
    /\ globeScenarioData = InitialScenarioData
    /\ editableParams = InitialEditableParams
    /\ physicsResponse = None
    /\ analysisError = None
    /\ isAnalyzing = FALSE
    /\ pendingAnalysis = None
    /\ circleData = <<>>
    /\ formEdits = 0

CallsIdle == calls = <<>>

(* The engine on every request. *)
EngineInit ==
    /\ FlowIdle
    /\ request \in Requests
    /\ outcome = Pending
    /\ SetupIdle
    /\ EstimatorIdle
    /\ GlobeIdle
    /\ CallsIdle
    /\ SearchIdle

EngineNext == analyze_impact

EngineSpec == EngineInit /\ [][EngineNext]_vars

(* The casualty estimator on every zone list, descending or not. *)
EstimatorInit ==
    /\ FlowIdle
    /\ estimatorInput \in [zones : ZoneListInputs,
                           population_density : EstimatorDensityInputs]
    /\ estimate = None
    /\ EngineIdle
    /\ SetupIdle
    /\ GlobeIdle
    /\ CallsIdle
    /\ SearchIdle

EstimatorNext == estimate_casualties

EstimatorSpec == EstimatorInit /\ [][EstimatorNext]_vars

(* The Globe screen on what Scenario Setup may have stored. *)
GlobeInit ==
    /\ FlowIdle
    /\ simulationData \in {None} \cup {Some(d) : d \in SimulationDataInputs}
    /\ currentImpactLocation \in
           IF IsSome(simulationData)
           THEN { Some([ lat |-> Get(simulationData).impact_location.latitude,
                         lng |-> Get(simulationData).impact_location.longitude ]) }
           ELSE { None, Some([lat |-> 3567621, lng |-> 13965034]) }
    /\ globePhase = "unmounted"
    /\ selectedCoordinates = None
    /\ globeAsteroidParameters = NoGlobeParameters
    /\ globeScenarioData = InitialScenarioData
    /\ editableParams = InitialEditableParams
    /\ physicsResponse = None
    /\ analysisError = None
    /\ isAnalyzing = FALSE
    /\ pendingAnalysis = None
    /\ circleData = <<>>
    /\ formEdits = 0
    /\ EngineIdle
    /\ SetupIdle
    /\ EstimatorIdle
    /\ CallsIdle
    /\ SearchIdle

GlobeNext ==
    \/ GlobeMount
    \/ updateCircleEffect
    \/ \E coords \in GlobeClickInputs : handleGlobeClick(coords)
    \/ \E location \in quickLocations : handleQuickLocationSelect(location)
    \/ \E e \in FormEditInputs : EditParameter(e[1], e[2])
    \/ RerunSimulation
    \/ \E data \in ResponseInputs : AnalysisResponded(data)
    \/ AnalysisFailed

GlobeSpec == GlobeInit /\ [][GlobeNext]_vars

(* Concurrent calls of the engine on every combination of requests. *)
ConcurrentInit ==
    /\ FlowIdle
    /\ calls \in [1..MaxCalls -> {NewCall(r) : r \in ConcurrentRequests}]
    /\ EngineIdle
    /\ SetupIdle
    /\ EstimatorIdle
    /\ GlobeIdle
    /\ SearchIdle

ConcurrentNext ==
    \E i \in DOMAIN calls :
        \/ ValidateCall(i)
        \/ ResolveCall(i)
        \/ ComputeCall(i)

ConcurrentSpec == ConcurrentInit /\ [][ConcurrentNext]_vars

(* The asteroid search on every sequence of changes of the text. *)
SearchInit ==
    /\ FlowIdle
    /\ EngineIdle
    /\ SetupIdle
    /\ EstimatorIdle
    /\ GlobeIdle
    /\ CallsIdle
    /\ SearchIdle

SearchNext ==
    \/ SearchMount
    \/ \E text \in QueryTexts : setSearchQuery(text)
    \/ Tick
    \/ \E t \in timers : fetchAutocompleteSuggestions(t)
    \/ \E query \in QueryTexts : SuggestionsArrived(query)
    \/ \E query \in QueryTexts : SuggestionsFailed(query)

SearchSpec == SearchInit /\ [][SearchNext]_vars

(* Scenario Setup on every stored record. *)
Init ==
    /\ FlowIdle
    /\ EngineIdle
    /\ sbdbRecord \in {None} \cup {Some(r) : r \in SBDBRecords}
    /\ SetupUnmounted
    /\ EstimatorIdle
    /\ GlobeIdle
    /\ CallsIdle
    /\ SearchIdle

Next ==
    \/ processAsteroidData
    \/ \E v \in DiameterEdits : EditDiameter(v)
    \/ \E v \in DensityEdits : EditDensity(v)
    \/ \E v \in MassEdits : EditMass(v)
    \/ \E c \in Compositions : EditComposition(c)
    \/ \E l \in ScenarioQuickLocations : handleLocationSelect(l)
    \/ handleDirectAnalysis
    \/ AnalysisSucceeded
    \/ AnalysisErrored

Spec == Init /\ [][Next]_vars

(* Scenario Setup on every orbit: the scenario form. *)
ScenarioInit ==
    /\ FlowIdle
    /\ EngineIdle
    /\ sbdbRecord \in {Some(r) : r \in OrbitRecords}
    /\ SetupUnmounted
    /\ EstimatorIdle
    /\ GlobeIdle
    /\ CallsIdle
    /\ SearchIdle

ScenarioNext ==
    \/ processAsteroidData
    \/ \E l \in ScenarioQuickLocations : handleLocationSelect(l)
    \/ \E v \in LatitudeTexts : handleInputChange("latitude", v)
    \/ \E v \in LongitudeTexts : handleInputChange("longitude", v)
    \/ \E v \in VelocityEdits : handleInputChange("velocity_kms", Some(v))
    \/ \E v \in AngleEdits : handleInputChange("angle_degrees", Some(v))
    \/ handleDirectAnalysis
    \/ AnalysisSucceeded
    \/ AnalysisErrored
    \/ CloseModal

ScenarioSpec == ScenarioInit /\ [][ScenarioNext]_vars

(* Choosing asteroids, from the mode selection with an empty localStorage. *)
SelectionInit ==
    /\ FlowIdle
    /\ EngineIdle
    /\ SetupIdle
    /\ EstimatorIdle
    /\ GlobeIdle
    /\ CallsIdle
    /\ SearchIdle

SelectionNext ==
    \/ \E mode \in {"predefined", "custom"} : ChooseMode(mode)
    \/ \E r \in PredefinedChoices : handleAsteroidSelect(r)
    \/ \E a \in CustomForms : CustomAsteroid_handleSubmit(a)
    \/ ScenarioSetupMounts
    \/ BackToModeSelection

SelectionSpec == SelectionInit /\ [][SelectionNext]_vars

(* The latitudes typed into the form: 95 and 40 degrees. *)
FormLatitudeTexts == {FromText(95 * 100000), FromText(40 * 100000)}

(* Scenario Setup with an asteroid of 1 km: the form, its button and its  *)
(* submission.                                                            *)
FormInit ==
    /\ FlowIdle
    /\ EngineIdle
    /\ sbdbRecord \in {Some(r) : r \in {x \in PredefinedChoices : x.diameter = Some(1)}}
    /\ SetupUnmounted
    /\ EstimatorIdle
    /\ GlobeIdle
    /\ CallsIdle
    /\ SearchIdle

FormNext ==
    \/ processAsteroidData
    \/ \E l \in ScenarioQuickLocations : handleLocationSelect(l)
    \/ \E v \in FormLatitudeTexts : handleInputChange("latitude", v)
    \/ \E v \in LongitudeTexts : handleInputChange("longitude", v)
    \/ \E v \in VelocityEdits : handleInputChange("velocity_kms", Some(v))
    \/ \E v \in AngleEdits : handleInputChange("angle_degrees", Some(v))
    \/ handleDirectAnalysis
    \/ handleSubmit
    \/ AnalysisSucceeded
    \/ AnalysisErrored
    \/ CloseModal

FormSpec == FormInit /\ [][FormNext]_vars

(* The older Scenario Setup and the globe screen, from the route of       *)
(* Scenario Setup; 'impactLocation' is absent or holds what another page  *)
(* or the user left there.                                                *)
HandoffInit ==
    /\ route = "scenario-setup"
    /\ SelectionIdle
    /\ impactLocation \in {None, Some(Unparsable)}
    /\ manualCoords = None
    /\ selectedMarker = None
    /\ confirmations = 0
    /\ EngineIdle
    /\ SetupIdle
    /\ EstimatorIdle
    /\ GlobeIdle
    /\ CallsIdle
    /\ SearchIdle

HandoffNext ==
    \/ impactLocationEffect
    \/ \E location \in SetupQuickLocations : handleLocationSelectOnMap(location)
    \/ GlobeScreenMount
    \/ \E coords \in HandoffClickInputs : GlobeScreen_handleGlobeClick(coords)
    \/ \E location \in GlobeQuickLocations :
           GlobeScreen_handleQuickLocationSelect(location)
    \/ clearSelection
    \/ handleConfirmLocation
    \/ ReloadScenarioSetup

HandoffSpec == HandoffInit /\ [][HandoffNext]_vars

----------------------------------------------------------------------------
(* Properties of the engine, under EngineSpec *)

Reported == outcome.kind = "report"
Report == Get(outcome.report)
Zones == Report.impact_radii_gradient
SeverityUnsorted(zs) ==
    /\ \E i \in 1..(Len(zs) - 1) : zs[i].severity_level < zs[i + 1].severity_level
    /\ \E i \in 1..(Len(zs) - 1) : zs[i].severity_level > zs[i + 1].severity_level

C2_DeflectionSectionIffAllSupplied ==
    Reported =>
        (IsSome(Report.deflection_analysis)
            <=> /\ IsSome(request.deflection_distance)
                /\ IsSome(request.warning_time)
                /\ IsSome(request.available_energy))

(* A report for a request that supplies a distance and a warning time     *)
(* but no available energy, and has no section.                           *)
C2_Witness ==
    /\ Reported
    /\ IsSome(request.deflection_distance)
    /\ IsSome(request.warning_time)
    /\ ~IsSome(request.available_energy)
    /\ Report.deflection_analysis = None

(* The fields of a request that are out of range. *)
InvalidFields(req) ==
    {f \in {"diameter", "mass", "density", "composition", "velocity", "angle",
            "population_density"} :
        \/ f = "diameter" /\ req.diameter <= 0
        \/ f = "mass" /\ req.mass # None /\ req.mass[1] <= 0
        \/ f = "density" /\ req.density # None /\ req.density[1] <= 0
        \/ f = "composition" /\ req.composition # None
              /\ req.composition[1] \notin {"ROCKY", "METALLIC", "ICY", "CARBONACEOUS"}
        \/ f = "velocity" /\ req.velocity # None /\ req.velocity[1] <= 0
        \/ f = "angle" /\ req.angle # None /\ (req.angle[1] < 0 \/ req.angle[1] > 90)
        \/ f = "population_density" /\ req.population_density # None
              /\ req.population_density[1] < 0}

(* C3: a request with any field out of range ends in a ValidationError    *)
(* that names one of the offending fields and carries no report, also     *)
(* when its deflection inputs are degenerate; a request with no field     *)
(* out of range does not.                                                 *)
C3_InvalidInputRejected ==
    outcome # Pending =>
        /\ InvalidFields(request) # {} =>
              /\ outcome.kind = "ValidationError"
              /\ outcome.field \in InvalidFields(request)
              /\ outcome.report = None
        /\ InvalidFields(request) = {} => outcome.kind # "ValidationError"

(* An angle of 95 degrees rejected by name, in a request whose            *)
(* deflection inputs are degenerate as well.                              *)
C3_Witness ==
    /\ outcome.kind = "ValidationError"
    /\ outcome.field = "angle"
    /\ request.angle = Some(95)
    /\ request.warning_time = Some(0)
    /\ IsSome(request.deflection_distance)
    /\ IsSome(request.available_energy)

(* C4: every report has impact_type airburst or surface; an airburst      *)
(* carries an airburst altitude and no crater diameter, a surface impact  *)
(* a crater diameter and no airburst altitude.                            *)
C4_AltitudeXorCrater ==
    Reported =>
        LET e == Report.energy_analysis
        IN  /\ e.impact_type \in {"airburst", "surface"}
            /\ e.impact_type = "airburst" =>
                   IsSome(e.airburst_altitude_km) /\ e.crater_diameter_m = None
            /\ e.impact_type = "surface" =>
                   IsSome(e.crater_diameter_m) /\ e.airburst_altitude_km = None

(* A surface impact with a positive crater diameter. *)
C4_Witness ==
    /\ Reported
    /\ Report.energy_analysis.impact_type = "surface"
    /\ IsSome(Report.energy_analysis.crater_diameter_m)
    /\ Get(Report.energy_analysis.crater_diameter_m) > 0

C10_DegenerateDeflectionFails ==
    /\ ( /\ outcome # Pending
         /\ InvalidFields(request) = {}
         /\ IsSome(request.deflection_distance)
         /\ IsSome(request.warning_time)
         /\ IsSome(request.available_energy)
         /\ (Get(request.deflection_distance) = 0 \/ Get(request.warning_time) = 0) )
       => (outcome.kind = "ComputationDegenerate" /\ outcome.report = None)
    /\ (Reported /\ IsSome(Report.deflection_analysis)) =>
           LET d == Get(Report.deflection_analysis)
           IN  /\ d.required_energy_joules.num > 0
               /\ d.required_energy_joules.den > 0
               /\ d.energy_ratio.den > 0

(* A zero warning time with a positive distance ending degenerate. *)
C10_Witness ==
    /\ outcome.kind = "ComputationDegenerate"
    /\ request.warning_time = Some(0)
    /\ request.deflection_distance = Some(6000)

----------------------------------------------------------------------------
(* Properties of Scenario Setup, under Spec *)

Extracted == setupPhase = "loaded" /\ IsSome(sbdbRecord) /\ editedFields = {}
Record == Get(sbdbRecord)
Sent == Get(apiParams)

(* C5: parameter resolution never replaces a supplied density or mass:    *)
(* after extraction a density the record supplies is the resolved         *)
(* density (in kg/m^3) and a mass the record supplies is the resolved     *)
(* mass, whatever the composition.                                        *)
C5_SuppliedValuesKept ==
    Extracted =>
        /\ IsSome(Record.density) =>
               asteroidParameters.density = Some(Get(Record.density) * UnitFactor)
        /\ IsSome(Record.mass) => asteroidParameters.mass = Record.mass

(* C6: a density the record does not supply is filled from the table      *)
(* ROCKY 2600, METALLIC 7800, ICY 1000, CARBONACEOUS 1380 kg/m^3.         *)
C6_DefaultDensityTable ==
    (Extracted /\ Record.density = None) =>
        asteroidParameters.density =
            Some(CASE Get(asteroidParameters.composition) = "ROCKY" -> 2600
                   [] Get(asteroidParameters.composition) = "METALLIC" -> 7800
                   [] Get(asteroidParameters.composition) = "ICY" -> 1000
                   [] Get(asteroidParameters.composition) = "CARBONACEOUS" -> 1380)

(* C7: when the record supplied no mass (and the user typed none), a      *)
(* mass sent with a diameter and a density is density * (4/3) * pi *      *)
(* (diameter/2)^3 of that diameter and density.                           *)
C7_SentMassMatchesDiameter ==
    ( /\ IsSome(apiParams)
      /\ IsSome(sbdbRecord)
      /\ Record.mass = None
      /\ "mass" \notin editedFields
      /\ IsSome(Sent.mass)
      /\ IsSome(Sent.density) )
    => Get(Sent.mass) = SphereMass(Sent.diameter, Get(Sent.density))

----------------------------------------------------------------------------
(* Properties of the asteroid search, under SearchSpec *)

(* C17: autocomplete requests are debounced: at most one timer is         *)
(* pending, a change of the text leaves only the timer of the new text    *)
(* pending, and a request is issued only for the text the box holds and   *)
(* has held unchanged for 300 ms, so a burst of changes issues at most    *)
(* one request, for the final text.                                       *)
C17_RequestsDebounced ==
    [][ /\ Cardinality(timers') <= 1
        /\ searchQuery' # searchQuery =>
               timers' = {[id |-> timeoutId', query |-> searchQuery',
                           due |-> DebounceTicks]}
        /\ issued' # issued =>
               /\ issued' = Append(issued, searchQuery)
               /\ heldFor * MillisecondsPerTick >= 300
               /\ Len(searchQuery) >= MinQueryLength ]_vars

(* Three changes of the text and then a single request, for the final    *)
(* text, with no timer left pending.                                      *)
C17_Witness ==
    /\ changes = 3
    /\ issued = <<searchQuery>>
    /\ timers = {}

----------------------------------------------------------------------------
(* Properties of the results tab, under GlobeSpec *)

(* The response shown on the results tab, and whether it carries the     *)
(* specified field names.                                                 *)
Shown == Get(physicsResponse)
Conforming == "energy_analysis.kinetic_energy_joules" \in DOMAIN Shown

(* C16: the fields the results tab reads are the specified ones: a        *)
(* response with the specified field names is shown with its own kinetic  *)
(* energy, TNT equivalent, impact type, airburst altitude or crater       *)
(* diameter, one row per damage zone with the zone's radius, and its      *)
(* fatalities, not with the fallbacks.                                    *)
C16_ConformingReportShownWithItsValues ==
    (IsSome(physicsResponse) /\ ~isAnalyzing /\ Conforming) =>
        LET tab == ResultsTab(Shown)
        IN  /\ tab.kinetic_energy_joules =
                   Read(Shown, "energy_analysis.kinetic_energy_joules")
            /\ tab.tnt_equivalent_megatons =
                   Shown["energy_analysis.tnt_equivalent_megatons"]
            /\ tab.impact_type = Shown["energy_analysis.impact_type"]
            /\ tab.airburst_altitude_km =
                   ShownIfTruthy(Read(Shown, "energy_analysis.airburst_altitude_km"))
            /\ tab.crater_diameter_m =
                   ShownIfTruthy(Read(Shown, "energy_analysis.crater_diameter_m"))
            /\ Len(tab.zones) = Len(Shown["impact_radii_gradient"])
            /\ \A i \in 1..Len(tab.zones) :
                   tab.zones[i].radius_km = Shown["impact_radii_gradient"][i]["radius_km"]
            /\ tab.fatalities = Read(Shown, "casualty_estimates.fatalities")

----------------------------------------------------------------------------
(* Properties of Run Simulation, under GlobeSpec *)

(* C18: the request Run Simulation issues carries what the rerun form     *)
(* holds at the click: its diameter, mass and density (the previous value *)
(* where the field does not parse to a number other than 0), its          *)
(* composition, velocity and angle, and its coordinates.                  *)
C18_RerunSendsFormValues ==
    [][ (pendingAnalysis = None /\ IsSome(pendingAnalysis')) =>
            LET sent == Get(pendingAnalysis')
                form == editableParams
            IN  /\ Some(sent.diameter) =
                       ParsedOr(form.diameter, globeAsteroidParameters.diameter)
                /\ sent.mass =
                       TruthyOr(ParsedOr(form.mass, globeAsteroidParameters.mass), None)
                /\ sent.density =
                       TruthyOr(ParsedOr(form.density, globeAsteroidParameters.density),
                                None)
                /\ sent.composition =
                       IF IsSome(form.composition) THEN form.composition
                       ELSE globeAsteroidParameters.composition
                /\ sent.velocity =
                       IF Truthy(form.velocity_kms)
                       THEN Some(Get(form.velocity_kms) * 1000) ELSE None
                /\ sent.angle = TruthyOr(form.angle_degrees, None)
                /\ sent.impact_latitude = ToFixed4(Get(form.impact_latitude))
                /\ sent.impact_longitude = ToFixed4(Get(form.impact_longitude)) ]_vars

(* C19: on the mounted Globe screen every step that changes               *)
(* selectedCoordinates leaves physicsResponse and analysisError null.     *)
C19_ResponseClearedWhenCoordinatesChange ==
    [][ (globePhase = "mounted" /\ selectedCoordinates' # selectedCoordinates) =>
            (physicsResponse' = None /\ analysisError' = None) ]_vars

(* C24: on the mounted Globe screen a physics response that is put into  *)
(* the state answers a request for the coordinates that are selected     *)
(* then: a response that arrives after the selection changed is not      *)
(* applied.                                                              *)
C24_ResponseBelongsToSelection ==
    [][ ( /\ globePhase = "mounted"
          /\ IsSome(pendingAnalysis)
          /\ IsSome(physicsResponse')
          /\ physicsResponse' # physicsResponse )
        => /\ IsSome(selectedCoordinates')
           /\ Get(selectedCoordinates').lat = Get(pendingAnalysis).impact_latitude
           /\ Get(selectedCoordinates').lng = Get(pendingAnalysis).impact_longitude
      ]_vars

----------------------------------------------------------------------------
(* Properties of the scenario form, under ScenarioSpec *)

Loaded == setupPhase = "loaded" /\ IsSome(sbdbRecord)
Typed(field) == field \in editedFields

(* C14: the velocity and the angle of the scenario are estimates only    *)
(* when the user has not typed them and the record has the elements: a    *)
(* typed velocity or angle stays as typed; with the semi-major axis or    *)
(* the eccentricity missing the velocity is the default 25 km/s, with the *)
(* inclination missing the angle is the default 45 degrees; and the       *)
(* extraction has not failed: the other parameters are extracted.         *)
C14_EstimatedOnlyFromPresentElements ==
    Loaded =>
        /\ Typed("velocity_kms") =>
               \E v \in VelocityEdits : scenarioData.velocity_kms = Some(v)
        /\ Typed("angle_degrees") =>
               \E v \in AngleEdits : scenarioData.angle_degrees = Some(v)
        /\ ( /\ ~Typed("velocity_kms")
             /\ Record.semi_major_axis = None \/ Record.eccentricity = None )
           => scenarioData.velocity_kms = Some(25 * MetresPerSecondPerKms)
        /\ (~Typed("angle_degrees") /\ Record.inclination = None)
           => scenarioData.angle_degrees = Some(45 * AngleUnitsPerDegree)
        /\ asteroidParameters.diameter = Scaled(Record.diameter)
        /\ asteroidParameters.geometric_albedo = Record.albedo

(* A record with a semi-major axis and an inclination but no              *)
(* eccentricity: the velocity is the default and the angle the estimate.  *)
C14_Witness ==
    /\ Loaded
    /\ editedFields = {}
    /\ Truthy(Record.semi_major_axis)
    /\ Record.eccentricity = None
    /\ IsSome(Record.inclination)
    /\ scenarioData.velocity_kms = Some(25 * MetresPerSecondPerKms)
    /\ scenarioData.angle_degrees # Some(45 * AngleUnitsPerDegree)

(* C15: for every inclination i the estimated impact angle is             *)
(* i * 0.5 + 30 degrees limited to [15, 90]: 15 when that is below 15,    *)
(* 90 when it is above 90.                                                *)
C15_AngleIsClampedEstimate ==
    (Loaded /\ IsSome(Record.inclination)) =>
        LET raw == (Get(Record.inclination) * AngleUnitsPerDegree)
                       \div (2 * TenthsPerDegree) + 30 * AngleUnitsPerDegree
            clamped == IF raw < 15 * AngleUnitsPerDegree THEN 15 * AngleUnitsPerDegree
                       ELSE IF raw > 90 * AngleUnitsPerDegree
                            THEN 90 * AngleUnitsPerDegree
                            ELSE raw
        IN  /\ asteroidParameters.typical_angle = Some(clamped)
            /\ ~Typed("angle_degrees") => scenarioData.angle_degrees = Some(clamped)
            /\ Get(asteroidParameters.typical_angle) >= 15 * AngleUnitsPerDegree
            /\ Get(asteroidParameters.typical_angle) <= 90 * AngleUnitsPerDegree

(* An inclination of 130 degrees, whose estimate 95 is limited to 90. *)
C15_Witness ==
    /\ Loaded
    /\ Record.inclination = Some(130 * TenthsPerDegree)
    /\ scenarioData.angle_degrees = Some(90 * AngleUnitsPerDegree)
    /\ ~Typed("angle_degrees")

(* C20: a latitude or longitude of 0 is a valid location: whenever the   *)
(* form holds a latitude in [-90, 90] and a longitude in [-180, 180],     *)
(* the quick location Pacific Ocean (0, -140) included, and no analysis   *)
(* is running, Analyze Impact is enabled and the location is not reported *)
(* as missing.                                                            *)
C20_ZeroIsAValidLocation ==
    LET latitude == scenarioData.impact_location.latitude
        longitude == scenarioData.impact_location.longitude
    IN  ( /\ setupPhase = "loaded"
          /\ IsSome(latitude) /\ IsSome(longitude)
          /\ Get(latitude).value \in (-9000000)..9000000
          /\ Get(longitude).value \in (-18000000)..18000000
          /\ ~setupIsAnalyzing )
        => /\ AnalyzeEnabled
           /\ setupAnalysisError # Some(LocationRequired)

----------------------------------------------------------------------------
(* Properties of the casualty estimator, under EstimatorSpec *)

EstimatedZones == estimatorInput.zones

(* C11: for every zone list, descending or not, and every population      *)
(* density >= 0, each annulus area the estimator uses is >= 0, an annulus *)
(* whose outer radius is not greater than the radius inside it has area   *)
(* 0, and the four casualty tiers are non-negative integers.              *)
C11_AnnuliAndTiersNonNegative ==
    IsSome(estimate) =>
        /\ \A i \in 1..Len(EstimatedZones) :
              /\ AnnulusArea(EstimatedZones, i) >= 0
              /\ ZoneCasualties(EstimatedZones, i, estimatorInput.population_density) >= 0
              /\ EstimatedZones[i].radius_meters <= InnerRadius(EstimatedZones, i)
                     => AnnulusArea(EstimatedZones, i) = 0
        /\ Get(estimate).fatalities \in Nat
        /\ Get(estimate).severe_injuries \in Nat
        /\ Get(estimate).moderate_injuries \in Nat
        /\ Get(estimate).light_injuries \in Nat

(* An estimate for a list whose first zone is smaller than the zone       *)
(* inside it, with people living there.                                   *)
C11_Witness ==
    /\ IsSome(estimate)
    /\ Len(EstimatedZones) = 2
    /\ EstimatedZones[1].radius_meters < EstimatedZones[2].radius_meters
    /\ estimatorInput.population_density > 0
    /\ Get(estimate).fatalities > 0

----------------------------------------------------------------------------
(* Properties of the Globe screen, under GlobeSpec *)

----------------------------------------------------------------------------
(* Properties of the choice of the asteroid, under SelectionSpec *)

(* C26: once Scenario Setup has run its mount effect, the record it read  *)
(* is the one the latest selection or creation wrote.                     *)
C26_LoadsTheLatestChoice ==
    (route = "scenario-setup" /\ setupPhase = "loaded") => sbdbRecord = lastChosen

----------------------------------------------------------------------------
(* Properties of the form of Scenario Setup, under FormSpec *)

(* C23: a step that sends the analysis request is taken only when         *)
(* validation reports no error: latitude in [-90, 90], longitude in       *)
(* [-180, 180], velocity in [1, 100] km/s and angle in [5, 90] degrees.   *)
C23_ProceedsOnlyWhenValid ==
    [][ setupInFlight' > setupInFlight =>
            validateForm(scenarioData, asteroidParameters, IsSome(sbdbRecord)) = {}
      ]_vars

----------------------------------------------------------------------------
(* Properties of the location hand-off, under HandoffSpec *)

(* C21: when the globe screen mounts with the coordinates a quick         *)
(* location of Scenario Setup stored, selectedCoordinates and             *)
(* manualCoords are those coordinates and the 'Selected Location' marker  *)
(* is placed there.                                                       *)
C21_QuickLocationPrefilled ==
    [][ ( /\ route = "globe"
          /\ globePhase = "unmounted"
          /\ globePhase' = "mounted"
          /\ IsSome(currentImpactLocation) )
        => LET entry == Get(currentImpactLocation)
           IN  /\ selectedCoordinates' = Some([lat |-> entry.lat, lng |-> entry.lng])
               /\ manualCoords' = Some([lat |-> entry.lat, lng |-> entry.lng])
               /\ selectedMarker' = Some([lat |-> entry.lat, lng |-> entry.lng])
      ]_vars

(* C22: 'impactLocation' is written only by Confirm with a location       *)
(* selected, and then holds its lat/lng; the mount of Scenario Setup that *)
(* finds a value that parses puts its lat/lng into impact_location and    *)
(* removes the key; a mount that finds no value, or one that does not     *)
(* parse, leaves impact_location as it is; and nothing else changes the   *)
(* key.                                                                   *)
C22_ConfirmedLocationDeliveredOnce ==
    [][ LET mounts == setupPhase = "unmounted" /\ setupPhase' = "loaded"
            delivers == /\ mounts
                        /\ IsSome(impactLocation)
                        /\ Get(impactLocation) # Unparsable
        IN  /\ (impactLocation' # impactLocation /\ ~mounts) =>
                   /\ route = "globe"
                   /\ IsSome(selectedCoordinates)
                   /\ IsSome(impactLocation')
                   /\ Get(impactLocation').lat = Get(selectedCoordinates).lat
                   /\ Get(impactLocation').lng = Get(selectedCoordinates).lng
            /\ delivers =>
                   /\ scenarioData'.impact_location =
                          [latitude |-> FromText(Get(impactLocation).lat),
                           longitude |-> FromText(Get(impactLocation).lng)]
                   /\ impactLocation' = None
            /\ (mounts /\ ~delivers) =>
                   /\ scenarioData'.impact_location = scenarioData.impact_location
                   /\ impactLocation' = impactLocation
      ]_vars

(* Scenario Setup mounted again after a reload that followed the delivery *)
(* of the one confirmed location: the key is gone and the form is empty.  *)
C22_Witness ==
    /\ route = "scenario-setup"
    /\ setupPhase = "loaded"
    /\ confirmations = 1
    /\ impactLocation = None
    /\ scenarioData.impact_location = DefaultScenarioData.impact_location

----------------------------------------------------------------------------
(* Properties of concurrent calls, under ConcurrentSpec *)

====
